---------------------------- MODULE Spec2Model ----------------------------
(***************************************************************************)
(* QuietNote v2: the background service worker (src/unnamed/part_000,      *)
(* lines 302-1246) and the crypto classes it is built from (same file,     *)
(* lines 1-300), as a state machine over chrome.storage.local.             *)
(*                                                                         *)
(* Values.  JS strings are TLA+ strings, JS numbers are integers, JS       *)
(* objects (CryptoKey, Uint8Array, envelopes, notes, settings) are         *)
(* records.  A missing object is NULL; a missing (falsy) string is "";     *)
(* a missing timer handle is 0 (all three are falsy in the source's        *)
(* `if (x)` tests).  A property that is absent from an object is absent    *)
(* from the record's DOMAIN.                                               *)
(*                                                                         *)
(* Cryptography is modelled symbolically: PBKDF2, SHA-256 and AES-GCM are  *)
(* injective term constructors, decryption succeeds exactly on a           *)
(* ciphertext produced under the same key and nonce.  Random bytes         *)
(* (crypto.getRandomValues) are drawn by the calling action.               *)
(***************************************************************************)
EXTENDS Integers, Sequences, FiniteSets, TLC

VARIABLES
    encryptionKey,   \* part_000:346  CryptoKey or NULL
    encryptionSalt,  \* part_000:347  Uint8Array or NULL
    autoLockTimer,   \* part_000:348  timeout handle, 0 = null
    lockState,       \* part_000:349  {locked, lastUnlock}
    storage,         \* chrome.storage.local: key string -> stored value
    timers,          \* the browser's pending timeouts created by setTimeout
    now,             \* Date.now()
    event,           \* the message, command or timer callback handled last
    response,        \* what sendResponse was called with for that event
    attempts,        \* observer: the run of failed UNLOCKs so far
    seen,            \* observer: what GET_NOTE returned before the last LOCK,
                     \* or the storage a migration started from
    manager,         \* storage.ts:86-88  StorageManager's static fields
    errors,          \* migration.ts:60  MigrationManager.errors
    backup,          \* the export file the user holds, NULL before an export
    runs,            \* observer: completed runs of autoMigrate
    migrating,       \* migration.ts:274  the call of autoMigrate under way, or NULL
    inflight,        \* the message handlers waiting for a storage callback
    isLocked         \* part_002:73  PopupManager.isLocked

vars == <<encryptionKey, encryptionSalt, autoLockTimer, lockState, storage,
          timers, now, event, response, attempts, seen, manager, errors,
          backup, runs, migrating, inflight, isLocked>>

\* The observers record what the UI has been answered; no handler reads them.
observers == <<attempts, seen>>

memory == <<encryptionKey, encryptionSalt, autoLockTimer, lockState>>

\* What the service worker's message handlers never touch: the static
\* fields of the classes of src/storage, the user's export file and the
\* count of migration runs and the migration under way.
outside == <<manager, errors, backup, runs, migrating, inflight, isLocked>>

-----------------------------------------------------------------------------
(* Bounds of the model *)

\* Number of clock steps a behaviour may take.
MaxTicks == 2
\* Distinct random 32-byte salts crypto.getRandomValues may return.
MaxSalt == 2
\* Timeouts the browser can hold pending at once.
MaxTimers == 2
\* Distinct random 12-byte nonces crypto.getRandomValues may return.
MaxIv == 6

-----------------------------------------------------------------------------
(* Input domains *)

NULL == [kind |-> "null"]

PINS == {"1111", "2222"}
NoteIds == {"n1"}
PageURLs == {"", "https://a.com/p", "https://b.com/p"}
\* The page scopes of the notes the listing handlers are exercised with.
ScopeURLs == {"https://a.com/p", "https://b.com/p"}
\* The scope the UI's note requests carry: the global vault.
RequestURLs == {""}
Texts == {"T1", "T2"}

\* storage.ts:30 lists the durations the UI offers; three of them.
AutoLockChoices == {0, 300000, 600000}


-----------------------------------------------------------------------------
(* Time *)

\* One clock step: the default auto-lock duration (part_000:321).
TickMs == 300000
StartTime == TickMs
MaxTime == StartTime + MaxTicks * TickMs

-----------------------------------------------------------------------------
(* Byte buffers and their transport encoding *)

\* A Uint8Array holding one of the random values the model draws.
Bytes(n) == [kind |-> "bytes", v |-> n]
SaltValues == {Bytes(n) : n \in 1..MaxSalt}

\* part_000:1035 arrayBufferToBase64; `new Uint8Array(null)` is empty and
\* encodes to the empty string.
arrayBufferToBase64(buffer) ==
    IF buffer = NULL THEN "" ELSE "b64:" \o ToString(buffer.v)

\* part_000:1044 base64ToArrayBuffer: the bytes whose encoding the string
\* is; atob throws on anything else.
base64ToArrayBuffer(base64, domain) ==
    IF \E b \in domain : arrayBufferToBase64(b) = base64
    THEN [ok |-> TRUE, value |-> CHOOSE b \in domain : arrayBufferToBase64(b) = base64]
    ELSE [ok |-> FALSE, error |-> "InvalidCharacterError"]

-----------------------------------------------------------------------------
(* Crypto functions (WebCrypto) *)

\* part_000:1023 hashData: base64 of the SHA-256 digest.
hashData(data) == "b64:sha256(" \o data \o ")"

\* part_000:964 derivePINKey(pin, salt); `random` is what getRandomValues
\* returns when no salt is passed.  The key is the PBKDF2 term of pin and
\* salt: equal inputs give the same key, different inputs different keys.
derivePINKey(pin, salt, random) ==
    LET finalSalt == IF salt = NULL THEN random ELSE salt
    IN  [key |-> [kind |-> "key", pin |-> pin, salt |-> finalSalt],
         newSalt |-> finalSalt]

\* The AES-GCM ciphertext (with its tag) of plaintext under key and nonce,
\* in its transport encoding.
AESGCM(key, iv, plaintext) ==
    "gcm(" \o key.pin \o "/" \o ToString(key.salt.v) \o "," \o ToString(iv.v)
           \o "," \o plaintext \o ")"

\* encryptAESGCM with the envelope's iv and salt fields swapped.
encryptAESGCMSwapsFields(plaintext, key, salt, iv) ==
    [ciphertext |-> AESGCM(key, iv, plaintext),
     iv |-> arrayBufferToBase64(salt),
     salt |-> arrayBufferToBase64(iv)]

\* part_000:993 encryptAESGCM(plaintext, key, salt); `iv` is the fresh
\* 12-byte nonce getRandomValues returns.
encryptAESGCM(plaintext, key, salt, iv) ==
    [ciphertext |-> AESGCM(key, iv, plaintext),
     iv |-> arrayBufferToBase64(iv),
     salt |-> arrayBufferToBase64(salt)]

IvValues == {Bytes(n) : n \in 1..MaxIv}

\* part_000:1010 decryptAESGCM(encrypted, key): decoding a malformed nonce
\* throws, and so does crypto.subtle.decrypt unless the ciphertext was
\* produced under this key and this nonce.
decryptAESGCM(encrypted, key) ==
    LET iv == base64ToArrayBuffer(encrypted.iv, IvValues)
    IN  IF ~iv.ok THEN [ok |-> FALSE, error |-> iv.error]
        ELSE IF \E p \in Texts : AESGCM(key, iv.value, p) = encrypted.ciphertext
        THEN [ok |-> TRUE,
              plaintext |-> CHOOSE p \in Texts :
                                AESGCM(key, iv.value, p) = encrypted.ciphertext]
        ELSE [ok |-> FALSE, error |-> "OperationError"]

-----------------------------------------------------------------------------
(* chrome.storage.local *)

\* result[key] of chrome.storage.local.get([key]): present or not.
Has(store, key) == key \in DOMAIN store

\* chrome.storage.local.set(items)
StorageSet(store, items) ==
    [k \in DOMAIN store \cup DOMAIN items |->
        IF k \in DOMAIN items THEN items[k] ELSE store[k]]

\* chrome.storage.local.remove(keys)
StorageRemove(store, keys) == [k \in DOMAIN store \ keys |-> store[k]]

\* { ...a, ...b }
Spread(a, b) ==
    [k \in DOMAIN a \cup DOMAIN b |-> IF k \in DOMAIN b THEN b[k] ELSE a[k]]

\* part_000:318 DEFAULT_SETTINGS (the fields the worker's logic reads; the
\* presentation fields theme, colours, fonts and shortcuts are left out).
DEFAULT_SETTINGS ==
    [securityLevel |-> "full",
     requirePIN |-> TRUE,
     autoLockTimer |-> 300000,
     encryptionEnabled |-> TRUE,
     rateLimitPINAttempts |-> TRUE,
     defaultNotePosition |-> "top-right",
     defaultNoteSize |-> "medium"]

\* const settings = { ...DEFAULT_SETTINGS, ...result.settings }
\* (part_000:505, 512, 531, 830, 846)
LoadSettings(store) ==
    IF Has(store, "settings") THEN Spread(DEFAULT_SETTINGS, store["settings"])
    ELSE DEFAULT_SETTINGS

\* `settings.pinHash` as a condition: set and non-empty.
HasPinHash(settings) == "pinHash" \in DOMAIN settings /\ settings.pinHash # ""

\* `note:${pageURL}:${id}` or `note:${id}` (part_000:600, 651, 753, 813, 927)
NoteKey(pageURL, id) ==
    IF pageURL # "" THEN "note:" \o pageURL \o ":" \o id ELSE "note:" \o id

NoteKeys == {NoteKey(u, i) : u \in PageURLs, i \in NoteIds}

\* The keys of chrome.storage.local that are not records (part_000:505,
\* 541, 555, 561, 1125).
OtherKeys == {"settings", "lockState", "encryptionSalt", "migration_v2_done"}

\* key.startsWith('note:'): every key the program writes is one of
\* OtherKeys or is built from the prefix note:.
IsNoteKey(key) == key \notin OtherKeys

-----------------------------------------------------------------------------
(* Timeouts *)

\* clearTimeout(handle)
clearTimeout(handle, pending) == {t \in pending : t.id # handle}

FreeTimerIds(pending) == (1..MaxTimers) \ {t.id : t \in pending}

\* setTimeout(callback, ms) at time t: a new pending timeout and its handle.
setTimeout(ms, pending, t) ==
    LET id == CHOOSE i \in FreeTimerIds(pending) :
                  \A j \in FreeTimerIds(pending) : i <= j
    IN  [handle |-> id, pending |-> pending \cup {[id |-> id, fireAt |-> t + ms]}]

\* scheduleAutoLock without its `timerMs > 0` test: a timeout is armed for
\* every duration, 0 included.
scheduleAutoLockArmsZero(timerMs, handle, pending, t) ==
    LET cleared == IF handle # 0 THEN clearTimeout(handle, pending) ELSE pending
        armed == setTimeout(timerMs, cleared, t)
    IN  [autoLockTimer |-> armed.handle, timers |-> armed.pending]

\* scheduleAutoLock without its clearTimeout: the old timeout stays pending.
scheduleAutoLockKeepsOld(timerMs, handle, pending, t) ==
    IF timerMs > 0
    THEN LET armed == setTimeout(timerMs, pending, t)
         IN  [autoLockTimer |-> armed.handle, timers |-> armed.pending]
    ELSE [autoLockTimer |-> 0, timers |-> pending]

\* part_000:1066 scheduleAutoLock(timerMs), called at time t with the
\* module's handle and the browser's pending timeouts.
scheduleAutoLock(timerMs, handle, pending, t) ==
    LET cleared == IF handle # 0 THEN clearTimeout(handle, pending) ELSE pending
    IN  IF timerMs > 0
        THEN LET armed == setTimeout(timerMs, cleared, t)
             IN  [autoLockTimer |-> armed.handle, timers |-> armed.pending]
        ELSE [autoLockTimer |-> 0, timers |-> cleared]

\* The model can arm a timeout only while the browser has a free slot.
CanSchedule(timerMs, handle, pending) ==
    timerMs > 0 =>
        FreeTimerIds(IF handle # 0 THEN clearTimeout(handle, pending) ELSE pending) # {}

-----------------------------------------------------------------------------
(* Initial state: the worker loaded and onInstalled done (part_000:346-375) *)

LockedState == [locked |-> TRUE, lastUnlock |-> 0]

Init ==
    /\ encryptionKey = NULL
    /\ encryptionSalt = NULL
    /\ autoLockTimer = 0
    /\ lockState = LockedState
    /\ storage = [settings |-> DEFAULT_SETTINGS,
                  lockState |-> LockedState,
                  migration_v2_done |-> TRUE]
    /\ timers = {}
    /\ now = StartTime
    /\ event = [type |-> "INSTALLED"]
    /\ response = NULL
    /\ attempts = [count |-> 0, last |-> 0]
    /\ seen = NULL
    /\ manager = [encryptionKey |-> NULL, encryptionSalt |-> NULL,
                  currentPIN |-> NULL]
    /\ errors = << >>
    /\ backup = NULL
    /\ runs = 0
    /\ migrating = NULL
    /\ inflight = << >>
    /\ isLocked = TRUE

-----------------------------------------------------------------------------
(* Lock controller *)

\* The PIN test of handleUnlock left out: every PIN is accepted.
UnlockAcceptsAnyPin(settings, pin) == TRUE

\* The salt lookup of handleUnlock left out: every unlock draws a new salt.
PersistedSaltIgnored(store) == [ok |-> TRUE, value |-> NULL]

\* part_000:524 handleUnlock.  `random` is the salt getRandomValues would
\* return; it is used only when no salt is persisted.
UnlockAccepts(settings, pin) ==
    ~(HasPinHash(settings) /\ hashData(pin) # settings.pinHash)

PersistedSalt(store) ==
    IF Has(store, "encryptionSalt") /\ store["encryptionSalt"] # ""
    THEN base64ToArrayBuffer(store["encryptionSalt"], SaltValues)
    ELSE [ok |-> TRUE, value |-> NULL]

handleUnlock(pin, random) ==
    LET settings == LoadSettings(storage)
        salt == PersistedSalt(storage)
    IN  /\ event' = [type |-> "UNLOCK", pin |-> pin]
        /\ UNCHANGED now
        /\ IF ~UnlockAccepts(settings, pin)
           THEN /\ response' = [success |-> FALSE, error |-> "Invalid PIN"]
                /\ UNCHANGED <<memory, storage, timers>>
           ELSE IF ~salt.ok
           THEN \* the exception escapes the storage callback: no response
                /\ response' = NULL
                /\ UNCHANGED <<memory, storage, timers>>
           ELSE LET derived == derivePINKey(pin, salt.value, random)
                    unlocked == [locked |-> FALSE, lastUnlock |-> now]
                    sched == scheduleAutoLock(settings.autoLockTimer,
                                              autoLockTimer, timers, now)
                    withSalt ==
                        IF salt.value = NULL
                        THEN StorageSet(storage,
                                 [encryptionSalt |->
                                     arrayBufferToBase64(derived.newSalt)])
                        ELSE storage
                IN  /\ CanSchedule(settings.autoLockTimer, autoLockTimer, timers)
                    /\ encryptionKey' = derived.key
                    /\ encryptionSalt' = derived.newSalt
                    /\ lockState' = unlocked
                    /\ storage' = StorageSet(withSalt, [lockState |-> unlocked])
                    /\ autoLockTimer' = sched.autoLockTimer
                    /\ timers' = sched.timers
                    /\ response' = [success |-> TRUE]

Unlock ==
    \E pin \in PINS :
        \E random \in (IF PersistedSalt(storage).ok /\ PersistedSalt(storage).value = NULL
                       THEN SaltValues ELSE {NULL}) :
            handleUnlock(pin, random)

\* part_000:574 handleLock, run with the browser holding `pending`.
handleLock(pending) ==
    /\ encryptionKey' = NULL
    /\ lockState' = LockedState
    /\ storage' = StorageSet(storage, [lockState |-> LockedState])
    /\ timers' = IF autoLockTimer # 0 THEN clearTimeout(autoLockTimer, pending)
                 ELSE pending
    /\ autoLockTimer' = 0
    /\ UNCHANGED <<encryptionSalt, now>>

\* The LOCK message (part_000:434).
Lock ==
    /\ event' = [type |-> "LOCK"]
    /\ handleLock(timers)
    /\ response' = [success |-> TRUE]

\* The lock-now keyboard command (part_000:1229).
LockNowCommand ==
    /\ event' = [type |-> "lock-now"]
    /\ handleLock(timers)
    /\ response' = NULL

\* The auto-lock timeout's callback (part_000:1075): the browser runs it
\* once its time has come and drops the timeout.
AutoLockFires ==
    \E t \in timers :
        /\ t.fireAt <= now
        /\ event' = [type |-> "auto-lock", id |-> t.id]
        /\ handleLock(timers \ {t})
        /\ response' = NULL

\* Time passes, up to the next pending timeout: a due timeout runs before
\* the clock moves on.
Tick ==
    LET due == {t.fireAt : t \in timers}
        step == now + TickMs
        next == IF \E d \in due : d < step
                THEN CHOOSE d \in due : \A e \in due : d <= e
                ELSE step
    IN  /\ \A d \in due : d > now
        /\ next <= MaxTime
        /\ now' = next
        /\ event' = [type |-> "tick"]
        /\ response' = NULL
        /\ UNCHANGED <<memory, storage, timers>>

-----------------------------------------------------------------------------
(* Settings and PIN handlers *)

\* The settings objects the settings page sends with UPDATE_SETTINGS.
SettingsUpdates ==
    {[autoLockTimer |-> d] : d \in AutoLockChoices}
        \cup {[encryptionEnabled |-> b] : b \in BOOLEAN}

\* part_000:503 handleGetSettings
handleGetSettings ==
    /\ event' = [type |-> "GET_SETTINGS"]
    /\ response' = [success |-> TRUE, settings |-> LoadSettings(storage)]
    /\ UNCHANGED <<memory, storage, timers, now>>

\* part_000:510 handleUpdateSettings
handleUpdateSettings(settings) ==
    LET current == LoadSettings(storage)
        updated == Spread(current, settings)
        rearm == "autoLockTimer" \in DOMAIN settings
        sched == IF rearm
                 THEN scheduleAutoLock(updated.autoLockTimer, autoLockTimer, timers, now)
                 ELSE [autoLockTimer |-> autoLockTimer, timers |-> timers]
    IN  /\ rearm => CanSchedule(updated.autoLockTimer, autoLockTimer, timers)
        /\ event' = [type |-> "UPDATE_SETTINGS", settings |-> settings]
        /\ storage' = StorageSet(storage, [settings |-> updated])
        /\ response' = [success |-> TRUE]
        /\ autoLockTimer' = sched.autoLockTimer
        /\ timers' = sched.timers
        /\ UNCHANGED <<encryptionKey, encryptionSalt, lockState, now>>

UpdateSettings == \E settings \in SettingsUpdates : handleUpdateSettings(settings)

\* handleSetPIN without its hashData call: the PIN is stored as it came.
PinToStore(pin) == pin

\* part_000:825 handleSetPIN
PinHashToStore(pin) == hashData(pin)

handleSetPIN(pin) ==
    LET settings == Spread(LoadSettings(storage), [pinHash |-> PinHashToStore(pin)])
    IN  /\ event' = [type |-> "SET_PIN", pin |-> pin]
        /\ storage' = StorageSet(storage, [settings |-> settings])
        /\ response' = [success |-> TRUE]
        /\ UNCHANGED <<memory, timers, now>>

SetPIN == \E pin \in PINS : handleSetPIN(pin)

\* part_000:841 handleVerifyPIN
handleVerifyPIN(pin) ==
    LET settings == LoadSettings(storage)
    IN  /\ event' = [type |-> "VERIFY_PIN", pin |-> pin]
        /\ response' = [success |-> TRUE,
                        valid |-> HasPinHash(settings)
                                    /\ hashData(pin) = settings.pinHash]
        /\ UNCHANGED <<memory, storage, timers, now>>

VerifyPIN == \E pin \in PINS : handleVerifyPIN(pin)

\* part_000:588 handleGetLockState
handleGetLockState ==
    LET state == IF Has(storage, "lockState") THEN storage["lockState"]
                 ELSE lockState
    IN  /\ event' = [type |-> "GET_LOCK_STATE"]
        /\ response' = [success |-> TRUE, locked |-> state.locked,
                        lastUnlock |-> state.lastUnlock]
        /\ UNCHANGED <<memory, storage, timers, now>>

-----------------------------------------------------------------------------
(* Note handlers *)

\* part_000:1086 DEFAULT_POSITIONS['top-right'], part_000:1093 DEFAULT_SIZES['medium']
DefaultPosition == [x |-> 1600, y |-> 20]
DefaultSize == [width |-> 300, height |-> 200]

\* `note.f || fallback` for a string or object property
OrElse(note, f, fallback) ==
    IF f \in DOMAIN note /\ note[f] # fallback THEN note[f] ELSE fallback

\* The properties of `note` among `fields` that are defined.
Pick(note, fields) == [f \in DOMAIN note \cap fields |-> note[f]]

\* The nonces held by the envelopes in storage.
EnvelopesOf(note) ==
    IF "_metadata" \in DOMAIN note
    THEN {note._metadata[f] :
            f \in DOMAIN note._metadata
                    \cap {"contentEncryptionMetadata", "titleEncryptionMetadata"}}
            \ {NULL}
    ELSE {}

UsedIvs(store) ==
    {b \in IvValues :
        \E k \in DOMAIN store :
            IsNoteKey(k) /\ \E e \in EnvelopesOf(store[k]) : e.iv = arrayBufferToBase64(b)}

\* crypto.getRandomValues for a nonce: a value no stored envelope holds
\* (a 96-bit random value repeats with negligible probability).
FreshIv(used) ==
    CHOOSE b \in IvValues \ used : \A c \in IvValues \ used : b.v <= c.v

\* part_000:609-617: the two encrypt calls of handleCreateNote and
\* handleUpdateNote, content first, each with its own nonce.
EncryptFields(note, key, salt, used) ==
    LET ivContent == FreshIv(used)
        ivTitle == FreshIv(used \cup {ivContent})
    IN  [content |-> encryptAESGCM(note.content, key, salt, ivContent),
         title |-> encryptAESGCM(note.title, key, salt, ivTitle)]

\* part_000:610 `if (encryptionKey)`
ShouldEncrypt(key, settings) == key # NULL

\* part_000:604-638: the record handleCreateNote stores.
StoredNote(note, key, salt, settings, used, t) ==
    LET encrypt == ShouldEncrypt(key, settings)
        enc == EncryptFields(note, key, salt, used)
    IN  [id |-> note.id,
         createdAt |-> IF "createdAt" \in DOMAIN note /\ note.createdAt # 0
                       THEN note.createdAt ELSE t,
         updatedAt |-> t,
         title |-> IF encrypt THEN enc.title.ciphertext ELSE note.title,
         content |-> IF encrypt THEN enc.content.ciphertext ELSE note.content,
         color |-> OrElse(note, "color", "#FFF9E6"),
         position |-> IF "position" \in DOMAIN note THEN note.position
                      ELSE DefaultPosition,
         size |-> IF "size" \in DOMAIN note THEN note.size ELSE DefaultSize,
         pageURL |-> OrElse(note, "pageURL", ""),
         masked |-> "masked" \in DOMAIN note /\ note.masked,
         _metadata |->
            Spread(Pick(note, {"tags", "pinned"}),
                   [encrypted |-> key # NULL,
                    contentEncryptionMetadata |->
                        IF encrypt THEN enc.content ELSE NULL,
                    titleEncryptionMetadata |->
                        IF encrypt THEN enc.title ELSE NULL])]

\* The notes the UI sends with CREATE_NOTE and UPDATE_NOTE.
NoteRequests ==
    {[id |-> i, title |-> t, content |-> c, pageURL |-> u] :
        i \in NoteIds, t \in Texts, c \in Texts, u \in RequestURLs}

\* part_000:595 handleCreateNote
handleCreateNote(note) ==
    LET noteKey == NoteKey(OrElse(note, "pageURL", ""), note.id)
        storedNote == StoredNote(note, encryptionKey, encryptionSalt,
                                 LoadSettings(storage), UsedIvs(storage), now)
    IN  /\ event' = [type |-> "CREATE_NOTE", note |-> note]
        /\ storage' = StorageSet(storage, [k \in {noteKey} |-> storedNote])
        /\ response' = [success |-> TRUE, id |-> note.id]
        /\ UNCHANGED <<memory, timers, now>>

CreateNote == \E note \in NoteRequests : handleCreateNote(note)

\* handleGetNote with a try/catch around each field instead of around
\* both: a field that fails to decrypt is returned as stored.
DecryptNoteFieldwise(note, key) ==
    IF "_metadata" \in DOMAIN note /\ note._metadata.encrypted /\ key # NULL
    THEN LET m == note._metadata
             c == IF OrElse(m, "contentEncryptionMetadata", NULL) # NULL
                  THEN decryptAESGCM(m.contentEncryptionMetadata, key)
                  ELSE [ok |-> FALSE]
             t == IF OrElse(m, "titleEncryptionMetadata", NULL) # NULL
                  THEN decryptAESGCM(m.titleEncryptionMetadata, key)
                  ELSE [ok |-> FALSE]
         IN  [success |-> TRUE,
              note |-> [note EXCEPT
                          !.content = IF c.ok THEN c.plaintext ELSE @,
                          !.title = IF t.ok THEN t.plaintext ELSE @]]
    ELSE [success |-> TRUE, note |-> note]

\* part_000:663-690: what handleGetNote does with the stored record.
DecryptNote(note, key) ==
    IF "_metadata" \in DOMAIN note /\ note._metadata.encrypted /\ key # NULL
    THEN LET m == note._metadata
             c == IF OrElse(m, "contentEncryptionMetadata", NULL) # NULL
                  THEN decryptAESGCM(m.contentEncryptionMetadata, key)
                  ELSE [ok |-> TRUE, plaintext |-> note.content]
             t == IF OrElse(m, "titleEncryptionMetadata", NULL) # NULL
                  THEN decryptAESGCM(m.titleEncryptionMetadata, key)
                  ELSE [ok |-> TRUE, plaintext |-> note.title]
         IN  IF ~c.ok
             THEN [success |-> FALSE, error |-> "Decryption failed: " \o c.error]
             ELSE IF ~t.ok
             THEN [success |-> FALSE, error |-> "Decryption failed: " \o t.error]
             ELSE [success |-> TRUE,
                   note |-> [note EXCEPT !.content = c.plaintext,
                                         !.title = t.plaintext]]
    ELSE [success |-> TRUE, note |-> note]

\* part_000:648 handleGetNote
handleGetNote(id, pageURL) ==
    LET noteKey == NoteKey(pageURL, id)
    IN  /\ event' = [type |-> "GET_NOTE", id |-> id, pageURL |-> pageURL]
        /\ response' = IF ~Has(storage, noteKey)
                       THEN [success |-> FALSE, error |-> "Note not found"]
                       ELSE DecryptNote(storage[noteKey], encryptionKey)
        /\ UNCHANGED <<memory, storage, timers, now>>

GetNote == \E id \in NoteIds, pageURL \in RequestURLs : handleGetNote(id, pageURL)

\* part_000:766-799: the record handleUpdateNote stores over `existingNote`.
UpdatedNote(existingNote, note, key, salt, settings, used, t) ==
    LET encrypt == ShouldEncrypt(key, settings)
        enc == EncryptFields(note, key, salt, used)
        oldMeta == IF "_metadata" \in DOMAIN existingNote
                   THEN existingNote._metadata ELSE <<>>
        envelopes ==
            IF encrypt
            THEN [contentEncryptionMetadata |-> enc.content,
                  titleEncryptionMetadata |-> enc.title]
            ELSE Pick(oldMeta, {"contentEncryptionMetadata",
                                "titleEncryptionMetadata"})
        meta == Spread(Spread(oldMeta, Pick(note, {"tags", "pinned"})),
                       Spread([encrypted |-> key # NULL], envelopes))
    IN  Spread(Spread(existingNote,
                      Pick(note, {"color", "position", "size", "masked"})),
               [updatedAt |-> t,
                title |-> IF encrypt THEN enc.title.ciphertext ELSE note.title,
                content |-> IF encrypt THEN enc.content.ciphertext
                            ELSE note.content,
                _metadata |-> meta])

\* part_000:750 handleUpdateNote
handleUpdateNote(note) ==
    LET noteKey == NoteKey(OrElse(note, "pageURL", ""), note.id)
    IN  /\ event' = [type |-> "UPDATE_NOTE", note |-> note]
        /\ IF ~Has(storage, noteKey)
           THEN /\ response' = [success |-> FALSE, error |-> "Note not found"]
                /\ UNCHANGED storage
           ELSE /\ storage' =
                      StorageSet(storage,
                          [k \in {noteKey} |->
                              UpdatedNote(storage[noteKey], note, encryptionKey,
                                          encryptionSalt, LoadSettings(storage),
                                          UsedIvs(storage), now)])
                /\ response' = [success |-> TRUE]
        /\ UNCHANGED <<memory, timers, now>>

UpdateNote == \E note \in NoteRequests : handleUpdateNote(note)

\* part_000:810 handleDeleteNote
handleDeleteNote(id, pageURL) ==
    /\ event' = [type |-> "DELETE_NOTE", id |-> id, pageURL |-> pageURL]
    /\ storage' = StorageRemove(storage, {NoteKey(pageURL, id)})
    /\ response' = [success |-> TRUE]
    /\ UNCHANGED <<memory, timers, now>>

DeleteNote == \E id \in NoteIds, pageURL \in RequestURLs : handleDeleteNote(id, pageURL)

\* `${note.id}` in a template literal: the text undefined for a missing id.
IdText(note) == IF "id" \in DOMAIN note THEN note.id ELSE "undefined"

\* part_000:925-931: the object importedNotes built from the array; a later
\* record of the file replaces an earlier one with its key.
ImportedItems(notes) ==
    LET keyOf(n) == NoteKey(OrElse(notes[n], "pageURL", ""), IdText(notes[n]))
        keys == {keyOf(n) : n \in 1..Len(notes)}
        last(k) == CHOOSE n \in 1..Len(notes) :
                       /\ keyOf(n) = k
                       /\ \A m \in 1..Len(notes) : keyOf(m) = k => m <= n
    IN  [k \in keys |-> notes[last(k)]]

\* part_000:920 handleImportNotes, given the parsed data.notes
handleImportNotes(notes) ==
    /\ event' = [type |-> "IMPORT_NOTES", notes |-> notes]
    /\ storage' = StorageSet(storage, ImportedItems(notes))
    /\ response' = [success |-> TRUE, count |-> Len(notes)]
    /\ UNCHANGED <<memory, timers, now>>

\* A backup file holds records as they were stored, possibly damaged: the
\* stored records, and each with one envelope's ciphertext corrupted.
Damaged(note, f) ==
    [note EXCEPT !._metadata[f].ciphertext = "damaged"]

StoredNotes(store) == {store[k] : k \in {k \in DOMAIN store : IsNoteKey(k)}}

ImportCandidates(store) ==
    StoredNotes(store)
        \cup {Damaged(n, f) :
                n \in {n \in StoredNotes(store) :
                         /\ n._metadata.contentEncryptionMetadata # NULL
                         /\ n._metadata.titleEncryptionMetadata # NULL},
                f \in {"contentEncryptionMetadata", "titleEncryptionMetadata"}}

ImportNotes == \E note \in ImportCandidates(storage) : handleImportNotes(<<note>>)

-----------------------------------------------------------------------------
(* Listing, export and clearing *)

\* part_000:711 `if (pageURL && note.pageURL !== pageURL) continue;`
ScopeFilterIgnored(note, pageURL) == TRUE

ScopeFilterPasses(note, pageURL) ==
    ~(pageURL # "" /\ OrElse(note, "pageURL", "") # pageURL)

\* handleGetAllNotes without the try/catch around a record's decryption:
\* the record that fails is listed as it is stored.
ListedNotesKeepFailed(store, pageURL, key) ==
    LET keys == {k \in DOMAIN store :
                    IsNoteKey(k) /\ ScopeFilterPasses(store[k], pageURL)}
    IN  [k \in keys |-> IF DecryptNote(store[k], key).success
                        THEN DecryptNote(store[k], key).note ELSE store[k]]

\* part_000:706-740: the loop of handleGetAllNotes.  The array `notes` is
\* given as a function of the storage key each element was read from (the
\* order in which chrome.storage.local.get(null) yields keys is not fixed).
ListedNotes(store, pageURL, key) ==
    LET keys == {k \in DOMAIN store :
                    /\ IsNoteKey(k)
                    /\ ScopeFilterPasses(store[k], pageURL)
                    /\ DecryptNote(store[k], key).success}
    IN  [k \in keys |-> DecryptNote(store[k], key).note]

ListFilters == {""} \cup ScopeURLs

\* part_000:699 handleGetAllNotes
handleGetAllNotes(pageURL) ==
    /\ event' = [type |-> "GET_ALL_NOTES", pageURL |-> pageURL]
    /\ response' = [success |-> TRUE,
                    notes |-> ListedNotes(storage, pageURL, encryptionKey)]
    /\ UNCHANGED <<memory, storage, timers, now>>

GetAllNotes == \E pageURL \in ListFilters : handleGetAllNotes(pageURL)

\* The notes the UI sends from a page: one note per page scope.
ScopedNoteRequests ==
    {[id |-> i, title |-> "T1", content |-> "T2", pageURL |-> u] :
        i \in NoteIds, u \in ScopeURLs}

CreateScopedNote == \E note \in ScopedNoteRequests : handleCreateNote(note)

UpdateScopedNote == \E note \in ScopedNoteRequests : handleUpdateNote(note)

DeleteScopedNote ==
    \E id \in NoteIds, pageURL \in ScopeURLs : handleDeleteNote(id, pageURL)

\* JSON.stringify(value) and JSON.parse(text).  A text is either the JSON
\* of a value or a text that is not JSON, on which JSON.parse throws.  What
\* JSON.stringify leaves out (properties holding undefined) is absent from
\* the model's records already.
JSONstringify(value) == [kind |-> "json", value |-> value]

NotJSON == [kind |-> "text", value |-> "{notes: ["]

JSONparse(text) ==
    IF text.kind = "json" THEN [ok |-> TRUE, value |-> text.value]
    ELSE [ok |-> FALSE, error |-> "Unexpected token"]

\* The record entries of storage: key -> stored value.
NoteEntries(store) == [k \in {k \in DOMAIN store : IsNoteKey(k)} |-> store[k]]

\* The values of an object in the order Object.entries yields them (the
\* order is the store's; the model takes one).
RECURSIVE ValuesOf(_)
ValuesOf(entries) ==
    IF DOMAIN entries = {} THEN << >>
    ELSE LET k == CHOOSE k \in DOMAIN entries : TRUE
         IN  <<entries[k]>> \o ValuesOf([j \in DOMAIN entries \ {k} |-> entries[j]])

\* part_000:893 handleExportNotes
handleExportNotes ==
    LET exportData == [version |-> "2.0",
                       exportedAt |-> now,
                       encrypted |-> encryptionKey # NULL,
                       notes |-> ValuesOf(NoteEntries(storage))]
    IN  /\ event' = [type |-> "EXPORT_NOTES"]
        /\ response' = [success |-> TRUE, data |-> JSONstringify(exportData)]
        /\ UNCHANGED <<memory, storage, timers, now>>

\* The user saves the export the program returned; the model keeps next to
\* the file the record entries storage held when it was made.
SaveBackup(data) ==
    backup' = [data |-> data, snapshot |-> NoteEntries(storage)]

ExportNotes == handleExportNotes /\ SaveBackup(response'.data)

\* part_000:920-939 handleImportNotes, given request.data.  JSON.parse
\* throws on a text that is not JSON; `data.notes` throws when data is null;
\* `note.pageURL` throws when an element of the array is null.  Every throw
\* ends in the handler's catch, before anything is written.  (`notes`, when
\* the data has it, is an array in every input of the model.)
handleImportNotesData(data) ==
    LET parsed == JSONparse(data)
        top == parsed.value
        notes == IF "notes" \in DOMAIN top THEN top.notes ELSE << >>
        thrown == IF ~parsed.ok THEN parsed.error
                  ELSE IF top = NULL \/ \E n \in 1..Len(notes) : notes[n] = NULL
                  THEN "TypeError"
                  ELSE ""
    IN  /\ event' = [type |-> "IMPORT_NOTES", data |-> data]
        /\ IF thrown # ""
           THEN /\ response' = [success |-> FALSE, error |-> thrown]
                /\ UNCHANGED storage
           ELSE /\ storage' = StorageSet(storage, ImportedItems(notes))
                /\ response' = [success |-> TRUE, count |-> Len(notes)]
        /\ UNCHANGED <<memory, timers, now>>

\* The user imports the export file they hold.
ImportBackup == backup # NULL /\ handleImportNotesData(backup.data)

\* part_000:941 handleClearNotes
handleClearNotes ==
    LET keysToRemove == {k \in DOMAIN storage : IsNoteKey(k)}
    IN  /\ event' = [type |-> "CLEAR_NOTES"]
        /\ storage' = StorageRemove(storage, keysToRemove)
        /\ response' = [success |-> TRUE, cleared |-> Cardinality(keysToRemove)]
        /\ UNCHANGED <<memory, timers, now>>

ClearNotes == handleClearNotes

\* Import files a user may pick: a record as CREATE_NOTE stores it while
\* locked, for each page scope, alone, twice, next to a null element and
\* without its id; a file without notes; the JSON null; a text that is not
\* JSON.
FileRecord(u) ==
    StoredNote([id |-> "n1", title |-> "T1", content |-> "T2", pageURL |-> u],
               NULL, NULL, DEFAULT_SETTINGS, {}, StartTime)

WithoutId(note) == [f \in DOMAIN note \ {"id"} |-> note[f]]

ImportFiles ==
    LET a == FileRecord("https://a.com/p")
        b == FileRecord("https://b.com/p")
    IN  {NotJSON, JSONstringify(NULL), JSONstringify([version |-> "2.0"])}
            \cup {JSONstringify([version |-> "2.0", notes |-> notes]) :
                    notes \in {<<a>>, <<a, b>>, <<a, a>>, <<a, NULL>>,
                               <<NULL, b>>, <<WithoutId(a), b>>}}

ImportFile == \E data \in ImportFiles : handleImportNotesData(data)

-----------------------------------------------------------------------------
(* The message gate (part_000:381-497) *)

\* part_000:381 ALLOWED_MESSAGES
ALLOWED_MESSAGES ==
    {"GET_SETTINGS", "UPDATE_SETTINGS", "UNLOCK", "LOCK", "GET_LOCK_STATE",
     "CREATE_NOTE", "GET_NOTE", "UPDATE_NOTE", "DELETE_NOTE", "GET_ALL_NOTES",
     "SET_PIN", "VERIFY_PIN", "ENCRYPT_DATA", "DECRYPT_DATA", "EXPORT_NOTES",
     "IMPORT_NOTES", "CLEAR_NOTES"}

\* A handler's catch, or the gate: the request is answered with an error
\* and nothing else happens.
Refuse(request, error) ==
    /\ event' = request
    /\ response' = [success |-> FALSE, error |-> error]
    /\ UNCHANGED <<memory, storage, timers, now>>

\* part_000:854 handleEncryptData
handleEncryptData(data) ==
    /\ event' = [type |-> "ENCRYPT_DATA", data |-> data]
    /\ response' =
          IF encryptionKey = NULL
          THEN [success |-> FALSE, error |-> "Encryption not unlocked"]
          ELSE [success |-> TRUE,
                encrypted |-> encryptAESGCM(data, encryptionKey, encryptionSalt,
                                            FreshIv(UsedIvs(storage)))]
    /\ UNCHANGED <<memory, storage, timers, now>>

\* part_000:874 handleDecryptData; reading a missing property of the
\* envelope makes atob throw, as a malformed nonce does.
handleDecryptData(encrypted) ==
    LET decrypted == IF {"ciphertext", "iv"} \subseteq DOMAIN encrypted
                     THEN decryptAESGCM(encrypted, encryptionKey)
                     ELSE [ok |-> FALSE, error |-> "InvalidCharacterError"]
    IN  /\ event' = [type |-> "DECRYPT_DATA", encrypted |-> encrypted]
        /\ response' =
              IF encryptionKey = NULL
              THEN [success |-> FALSE, error |-> "Encryption not unlocked"]
              ELSE IF ~decrypted.ok
              THEN [success |-> FALSE, error |-> decrypted.error]
              ELSE [success |-> TRUE, decrypted |-> decrypted.plaintext]
        /\ UNCHANGED <<memory, storage, timers, now>>

\* part_000:419 handleMessage.  A CREATE_NOTE or UPDATE_NOTE without a note
\* throws a TypeError at `note.pageURL`, inside the handler's try.
handleMessage(request) ==
    CASE request.type = "GET_SETTINGS" -> handleGetSettings
      [] request.type = "UPDATE_SETTINGS" ->
            handleUpdateSettings(request.settings)
      [] request.type = "UNLOCK" ->
            \E random \in (IF PersistedSalt(storage).ok
                               /\ PersistedSalt(storage).value = NULL
                            THEN SaltValues ELSE {NULL}) :
                handleUnlock(request.pin, random)
      [] request.type = "LOCK" -> Lock
      [] request.type = "GET_LOCK_STATE" -> handleGetLockState
      [] request.type = "CREATE_NOTE" ->
            IF "note" \in DOMAIN request THEN handleCreateNote(request.note)
            ELSE Refuse(request, "TypeError")
      [] request.type = "GET_NOTE" ->
            handleGetNote(request.id, request.pageURL)
      [] request.type = "GET_ALL_NOTES" -> handleGetAllNotes(request.pageURL)
      [] request.type = "UPDATE_NOTE" ->
            IF "note" \in DOMAIN request THEN handleUpdateNote(request.note)
            ELSE Refuse(request, "TypeError")
      [] request.type = "DELETE_NOTE" ->
            handleDeleteNote(request.id, request.pageURL)
      [] request.type = "SET_PIN" -> handleSetPIN(request.pin)
      [] request.type = "VERIFY_PIN" -> handleVerifyPIN(request.pin)
      [] request.type = "ENCRYPT_DATA" -> handleEncryptData(request.data)
      [] request.type = "DECRYPT_DATA" -> handleDecryptData(request.encrypted)
      [] request.type = "EXPORT_NOTES" -> handleExportNotes
      [] request.type = "IMPORT_NOTES" -> handleImportNotesData(request.data)
      [] request.type = "CLEAR_NOTES" -> handleClearNotes
      [] OTHER -> Refuse(request, "Unknown message type")

\* The listener without its test against ALLOWED_MESSAGES.
onMessageUngated(request) == handleMessage(request)

\* part_000:401 the onMessage listener
onMessage(request) ==
    IF request.type \notin ALLOWED_MESSAGES
    THEN Refuse(request, "Unauthorized message type")
    ELSE handleMessage(request)

\* The requests the worker is sent: one or two of each allowed type, a
\* CREATE_NOTE without its note, and requests of other types, among them
\* allowed types in other case and requests carrying a PIN or a note.
AllowedRequests ==
    LET note == [id |-> "n1", title |-> "T1", content |-> "T2", pageURL |-> ""]
        key == derivePINKey("1111", Bytes(1), Bytes(1)).key
        envelope == encryptAESGCM("T1", key, Bytes(1), Bytes(1))
    IN  {[type |-> "GET_SETTINGS"], [type |-> "LOCK"],
         [type |-> "GET_LOCK_STATE"], [type |-> "EXPORT_NOTES"],
         [type |-> "CLEAR_NOTES"],
         [type |-> "UPDATE_SETTINGS", settings |-> [encryptionEnabled |-> FALSE]],
         [type |-> "SET_PIN", pin |-> "1111"],
         [type |-> "CREATE_NOTE", note |-> note], [type |-> "CREATE_NOTE"],
         [type |-> "UPDATE_NOTE", note |-> note],
         [type |-> "GET_NOTE", id |-> "n1", pageURL |-> ""],
         [type |-> "DELETE_NOTE", id |-> "n1", pageURL |-> ""],
         [type |-> "GET_ALL_NOTES", pageURL |-> ""],
         [type |-> "ENCRYPT_DATA", data |-> "T1"]}
            \cup {[type |-> t, pin |-> pin] :
                    t \in {"UNLOCK", "VERIFY_PIN"}, pin \in PINS}
            \cup {[type |-> "DECRYPT_DATA", encrypted |-> e] :
                    e \in {envelope, [envelope EXCEPT !.ciphertext = "damaged"],
                           [iv |-> envelope.iv]}}

ImportRequests ==
    {[type |-> "IMPORT_NOTES", data |-> data] :
        data \in {NotJSON,
                  JSONstringify([version |-> "2.0",
                                 notes |-> <<FileRecord("")>>])}}

RefusedRequests ==
    {[type |-> "PING"], [type |-> "GET_KEY"], [type |-> "lock"],
     [type |-> "Unlock", pin |-> "1111"], [type |-> "RESET_ALL"],
     [type |-> "DELETE_ALL_NOTES", id |-> "n1", pageURL |-> ""],
     [type |-> "", note |-> [id |-> "n1", title |-> "T1", content |-> "T1",
                             pageURL |-> ""]]}

AllowedMessage ==
    \/ \E request \in AllowedRequests : onMessage(request)
    \/ \E request \in ImportRequests : onMessage(request)

RefusedMessage == \E request \in RefusedRequests : onMessage(request)

-----------------------------------------------------------------------------
(* StorageManager (src/storage/storage.ts) *)

\* The page addresses notes are taken on, as the browser reports them.
RawURLs == {"https://a.com/p", "https://a.com/p?q=1"}

\* The addresses the URL parser accepts, by their components as the URL
\* object names them: search and hash with their leading mark or empty, port
\* empty when the address has none.
URLParts ==
    [protocol : {"https:", "http:"},
     hostname : {"a.com", "b.com", "ex.com"},
     port : {"", "443", "8443"},
     pathname : {"/p", "/a"},
     search : {"", "?q=1", "?x=1"},
     hash : {"", "#h"}]

\* The text of an address with the given components.
Href(u) ==
    u.protocol \o "//" \o u.hostname
        \o (IF u.port # "" THEN ":" \o u.port ELSE "")
        \o u.pathname \o u.search \o u.hash

\* The port the URL parser drops for a scheme.
DefaultPort == [protocol \in {"https:", "http:"} |->
                    IF protocol = "https:" THEN "443" ELSE "80"]

\* storage.ts:416, migration.ts:110 new URL(url): the parsed address, or a
\* TypeError for a text that is not an address.  host is the hostname, and
\* the port when the address names one that is not the scheme's default.
URL(url) ==
    IF \E u \in URLParts : Href(u) = url
    THEN LET u == CHOOSE u \in URLParts : Href(u) = url
         IN  [ok |-> TRUE, protocol |-> u.protocol,
              host |-> IF u.port = "" \/ u.port = DefaultPort[u.protocol]
                       THEN u.hostname ELSE u.hostname \o ":" \o u.port,
              pathname |-> u.pathname]
    ELSE [ok |-> FALSE]

\* storage.ts:414, migration.ts:108 normalizeUrl: protocol, host and path of
\* the address; a text that does not parse is returned as it is.
normalizeUrl(url) ==
    LET urlObj == URL(url)
    IN  IF urlObj.ok
        THEN urlObj.protocol \o "//" \o urlObj.host \o urlObj.pathname
        ELSE url

\* storage.ts:178, 186, 242: the storage key of a note
ManagerKey(note) ==
    LET url == OrElse(note, "url", "")
    IN  IF url # "" THEN "note:" \o normalizeUrl(url) \o ":" \o IdText(note)
        ELSE "note:" \o IdText(note)

\* part_000:76 CryptoManager.encrypt
CryptoManagerEncrypt(plaintext, key, salt, iv) ==
    Spread(encryptAESGCM(plaintext, key, salt, iv), [tag |-> ""])

\* CryptoManager.decrypt without its try/catch: a failure is thrown.
CryptoManagerDecryptWithoutCatch(encrypted, key) ==
    IF encrypted = NULL \/ key = NULL
    THEN [thrown |-> "TypeError"]
    ELSE IF ~({"ciphertext", "iv"} \subseteq DOMAIN encrypted)
    THEN [thrown |-> "InvalidCharacterError"]
    ELSE LET d == decryptAESGCM(encrypted, key)
         IN  IF d.ok THEN [plaintext |-> d.plaintext, success |-> TRUE]
             ELSE [thrown |-> d.error]

\* part_000:104 CryptoManager.decrypt.  Reading a property of a null
\* envelope and decrypting under a null key throw a TypeError, decoding a
\* missing property throws as a malformed one does; all inside the try.
CryptoManagerDecrypt(encrypted, key) ==
    LET d == IF encrypted = NULL \/ key = NULL
             THEN [ok |-> FALSE, error |-> "TypeError"]
             ELSE IF ~({"ciphertext", "iv"} \subseteq DOMAIN encrypted)
             THEN [ok |-> FALSE, error |-> "InvalidCharacterError"]
             ELSE decryptAESGCM(encrypted, key)
    IN  IF d.ok THEN [plaintext |-> d.plaintext, success |-> TRUE]
        ELSE [plaintext |-> "", success |-> FALSE,
              error |-> "Decryption failed: " \o d.error]

\* part_000:40 CryptoManager.derivePINKey(pin, salt): the worker's
\* derivePINKey with the salt returned as `salt`.
CryptoManagerDerivePINKey(pin, salt, random) ==
    LET derived == derivePINKey(pin, salt, random)
    IN  [key |-> derived.key, salt |-> derived.newSalt]

\* The nonces of the envelopes among a set of stored records.
EnvelopeIvs(notes) ==
    {b \in IvValues :
        \E n \in notes : /\ "encryptionMetadata" \in DOMAIN n
                         /\ n.encryptionMetadata.iv = arrayBufferToBase64(b)}

\* The nonces that exist already when StorageManager encrypts: those in
\* storage and those in the export file the user holds.
KnownIvs(store, file) ==
    EnvelopeIvs(StoredNotes(store))
        \cup (IF file = NULL THEN {}
              ELSE EnvelopeIvs({file.snapshot[k] : k \in DOMAIN file.snapshot}))

\* storage.ts:104 unlockEncryption(pin); `random` is the salt
\* getRandomValues returns when none is stored.
unlockEncryption(pin, random) ==
    LET settings == LoadSettings(storage)
        stored == IF Has(storage, "encryptionSalt")
                  THEN storage["encryptionSalt"] ELSE ""
        salt == IF stored # ""
                THEN base64ToArrayBuffer(stored, SaltValues).value ELSE NULL
        derived == derivePINKey(pin, salt, random)
    IN  /\ event' = [type |-> "unlockEncryption", pin |-> pin]
        /\ IF HasPinHash(settings) /\ hashData(pin) # settings.pinHash
           THEN /\ response' = [returned |-> FALSE]
                /\ UNCHANGED <<manager, storage>>
           ELSE /\ manager' = [encryptionKey |-> derived.key,
                               encryptionSalt |-> derived.newSalt,
                               currentPIN |-> pin]
                /\ storage' =
                      IF stored = ""
                      THEN StorageSet(storage,
                               [encryptionSalt |->
                                   arrayBufferToBase64(derived.newSalt)])
                      ELSE storage
                /\ response' = [returned |-> TRUE]
        /\ UNCHANGED <<memory, timers, now>>

ManagerUnlock ==
    \E pin \in PINS, random \in SaltValues : unlockEncryption(pin, random)

\* storage.ts:139 lockEncryption
lockEncryption ==
    /\ event' = [type |-> "lockEncryption"]
    /\ manager' = [manager EXCEPT !.encryptionKey = NULL, !.currentPIN = NULL]
    /\ response' = NULL
    /\ UNCHANGED <<memory, storage, timers, now>>

\* storage.ts:155-175: the record saveNote stores; `iv` is the nonce
\* CryptoManager.encrypt draws.  A property holding undefined is not stored.
SavedNote(note, statics, settings, iv) ==
    LET encrypt == /\ settings.encryptionEnabled
                   /\ statics.encryptionKey # NULL
                   /\ statics.encryptionSalt # NULL
        encrypted == CryptoManagerEncrypt(note.content, statics.encryptionKey,
                                          statics.encryptionSalt, iv)
        plain == [f \in DOMAIN note \ {"encryptionMetadata"} |-> note[f]]
    IN  Spread(plain,
               IF encrypt
               THEN [content |-> encrypted.ciphertext,
                     encrypted |-> settings.encryptionEnabled,
                     encryptionMetadata |-> encrypted]
               ELSE [content |-> note.content,
                     encrypted |-> settings.encryptionEnabled])

\* storage.ts:154 saveNote(note): storage after the call
SaveNoteInto(store, note, statics, file) ==
    StorageSet(store,
        [k \in {ManagerKey(note)} |->
            SavedNote(note, statics, LoadSettings(store),
                      FreshIv(KnownIvs(store, file)))])

saveNote(note) ==
    /\ event' = [type |-> "saveNote", note |-> note]
    /\ storage' = SaveNoteInto(storage, note, manager, backup)
    /\ response' = NULL
    /\ UNCHANGED <<memory, manager, timers, now>>

\* The notes the UI saves through StorageManager: a note on a page.
ManagerNotes ==
    {[id |-> i, title |-> "T1", content |-> "T2", url |-> u,
      color |-> "#FFF9E6", createdAt |-> StartTime, updatedAt |-> StartTime,
      encrypted |-> FALSE] : i \in NoteIds, u \in {"https://a.com/p?q=1"}}

ManagerSave == \E note \in ManagerNotes : saveNote(note)

\* storage.ts:214-233: the loop of getAllNotes, the array given as a
\* function of the storage key each element was read from.
ManagerListedNotes(store, url, key) ==
    LET mustDecrypt(note) == /\ "encrypted" \in DOMAIN note /\ note.encrypted
                             /\ "encryptionMetadata" \in DOMAIN note
                             /\ key # NULL
        keys == {k \in DOMAIN store :
                    /\ IsNoteKey(k)
                    /\ ~(url # "" /\ OrElse(store[k], "url", "") # url)
                    /\ mustDecrypt(store[k]) =>
                          CryptoManagerDecrypt(store[k].encryptionMetadata,
                                               key).success}
    IN  [k \in keys |->
            IF mustDecrypt(store[k])
            THEN [store[k] EXCEPT !.content =
                     CryptoManagerDecrypt(store[k].encryptionMetadata,
                                          key).plaintext]
            ELSE store[k]]

\* storage.ts:210 getAllNotes(url)
getAllNotes(url) ==
    /\ event' = [type |-> "getAllNotes", url |-> url]
    /\ response' = [returned |->
                      ManagerListedNotes(storage, url, manager.encryptionKey)]
    /\ UNCHANGED <<memory, manager, storage, timers, now>>

ManagerList == \E url \in {""} \cup RawURLs : getAllNotes(url)

\* storage.ts:274 exportNotes
exportNotes ==
    LET notes == ManagerListedNotes(storage, "", manager.encryptionKey)
        settings == LoadSettings(storage)
        exportData ==
            Spread([version |-> "2.0",
                    exportedAt |-> now,
                    encryptionEnabled |-> settings.encryptionEnabled,
                    notes |-> ValuesOf(notes)],
                   Pick(storage, {"encryptionSalt"}))
    IN  /\ event' = [type |-> "exportNotes"]
        /\ response' = [returned |-> JSONstringify(exportData)]
        /\ UNCHANGED <<memory, manager, storage, timers, now>>

ManagerExport == exportNotes /\ SaveBackup(response'.returned)

\* storage.ts:299-306: the loop of importNotes from element n on; the
\* records are saved one after the other, each with its own nonce.
RECURSIVE SaveAll(_, _, _, _, _)
SaveAll(store, notes, n, statics, file) ==
    IF n > Len(notes) THEN store
    ELSE SaveAll(SaveNoteInto(store, notes[n], statics, file),
                 notes, n + 1, statics, file)

\* storage.ts:293 importNotes(jsonData).  JSON.parse throws on a text that
\* is not JSON, and `for (const note of notes)` when the data has no notes:
\* both end in the outer catch.  saveNote throws on a null element, which
\* the inner catch takes; its log message reads `note.id` and throws again,
\* into the outer catch, after the elements before it were saved.
importNotes(jsonData) ==
    LET parsed == JSONparse(jsonData)
        top == parsed.value
        notes == top.notes
        invalid == ~parsed.ok \/ top = NULL \/ "notes" \notin DOMAIN top
        nulls == {n \in 1..Len(notes) : notes[n] = NULL}
        firstNull == CHOOSE n \in nulls : \A m \in nulls : n <= m
    IN  /\ event' = [type |-> "importNotes", data |-> jsonData]
        /\ IF invalid
           THEN /\ response' = [success |-> FALSE, count |-> 0,
                                error |-> "Import failed: TypeError"]
                /\ UNCHANGED storage
           ELSE IF nulls # {}
           THEN /\ response' = [success |-> FALSE, count |-> 0,
                                error |-> "Import failed: TypeError"]
                /\ storage' = SaveAll(storage, SubSeq(notes, 1, firstNull - 1),
                                      1, manager, backup)
           ELSE /\ response' = [success |-> TRUE, count |-> Len(notes)]
                /\ storage' = SaveAll(storage, notes, 1, manager, backup)
        /\ UNCHANGED <<memory, manager, timers, now>>

\* The user imports the export file they hold.  Importing ciphertext while
\* a key is held encrypts it once more, and so on without end: the model
\* leaves out the imports that would encrypt anything but a plaintext.
ManagerImport ==
    /\ backup # NULL
    /\ \/ manager.encryptionKey = NULL
       \/ ~LoadSettings(storage).encryptionEnabled
       \/ \A k \in DOMAIN backup.snapshot :
             \A n \in 1..Len(backup.data.value.notes) :
                backup.data.value.notes[n].content \in Texts
    /\ importNotes(backup.data)

\* storage.ts:321 clearAllNotes: deleteNote(note.id, note.url) for every
\* note getAllNotes returns.
clearAllNotes ==
    LET notes == ManagerListedNotes(storage, "", manager.encryptionKey)
    IN  /\ event' = [type |-> "clearAllNotes"]
        /\ storage' = StorageRemove(storage,
                          {ManagerKey(notes[k]) : k \in DOMAIN notes})
        /\ response' = NULL
        /\ UNCHANGED <<memory, manager, timers, now>>

-----------------------------------------------------------------------------
(* MigrationManager and autoMigrate (src/storage/migration.ts) *)

\* migration.ts:43 DEFAULT_POSITIONS, migration.ts:50 DEFAULT_SIZES
DEFAULT_POSITIONS ==
    [p \in {"top-right", "top-left", "bottom-right", "bottom-left"} |->
        CASE p = "top-right" -> [x |-> 1600, y |-> 20]
          [] p = "top-left" -> [x |-> 20, y |-> 20]
          [] p = "bottom-right" -> [x |-> 1600, y |-> 860]
          [] p = "bottom-left" -> [x |-> 20, y |-> 860]]

DEFAULT_SIZES ==
    [z \in {"small", "medium", "large"} |->
        CASE z = "small" -> [width |-> 200, height |-> 150]
          [] z = "medium" -> [width |-> 300, height |-> 200]
          [] z = "large" -> [width |-> 400, height |-> 300]]

\* The characters of the colour texts of the model's legacy notes and of
\* the colours they are normalised to.
Chars(text) ==
    CASE text = "" -> << >>
      [] text = "#e3f2fd" -> <<"#", "e", "3", "f", "2", "f", "d">>
      [] text = "#FFF9E6" -> <<"#", "F", "F", "F", "9", "E", "6">>
      [] text = "#Ab12cD" -> <<"#", "A", "b", "1", "2", "c", "D">>
      [] text = "#12345g" -> <<"#", "1", "2", "3", "4", "5", "g">>
      [] text = "e3f2fd" -> <<"e", "3", "f", "2", "f", "d">>
      [] text = "#abc" -> <<"#", "a", "b", "c">>
      [] text = "#F0d" -> <<"#", "F", "0", "d">>
      [] text = "#xyz" -> <<"#", "x", "y", "z">>
      [] text = "yellow" -> <<"y", "e", "l", "l", "o", "w">>
      [] text = "blue" -> <<"b", "l", "u", "e">>
      [] text = "Blue" -> <<"B", "l", "u", "e">>
      [] text = "green" -> <<"g", "r", "e", "e", "n">>
      [] text = "pink" -> <<"p", "i", "n", "k">>
      [] text = "PURPLE" -> <<"P", "U", "R", "P", "L", "E">>
      [] text = "orange" -> <<"o", "r", "a", "n", "g", "e">>
      [] text = "red" -> <<"r", "e", "d">>
      [] text = "#E3F2FD" -> <<"#", "E", "3", "F", "2", "F", "D">>
      [] text = "#AB12CD" -> <<"#", "A", "B", "1", "2", "C", "D">>
      [] text = "#AABBCC" -> <<"#", "A", "A", "B", "B", "C", "C">>
      [] text = "#FF00DD" -> <<"#", "F", "F", "0", "0", "D", "D">>
      [] text = "#E8F5E9" -> <<"#", "E", "8", "F", "5", "E", "9">>
      [] text = "#FCE4EC" -> <<"#", "F", "C", "E", "4", "E", "C">>
      [] text = "#F3E5F5" -> <<"#", "F", "3", "E", "5", "F", "5">>
      [] text = "#FFF3E0" -> <<"#", "F", "F", "F", "3", "E", "0">>

\* The text made of the given characters.
RECURSIVE Join(_)
Join(chars) == IF chars = << >> THEN "" ELSE Head(chars) \o Join(Tail(chars))

LowerCaseLetters ==
    <<"a", "b", "c", "d", "e", "f", "g", "h", "i", "j", "k", "l", "m",
      "n", "o", "p", "q", "r", "s", "t", "u", "v", "w", "x", "y", "z">>
UpperCaseLetters ==
    <<"A", "B", "C", "D", "E", "F", "G", "H", "I", "J", "K", "L", "M",
      "N", "O", "P", "Q", "R", "S", "T", "U", "V", "W", "X", "Y", "Z">>

\* String.prototype.toUpperCase and toLowerCase (migration.ts:125, 133,
\* 146), character by character.
toUpperCase(chars) ==
    [i \in DOMAIN chars |->
        IF \E k \in DOMAIN LowerCaseLetters : LowerCaseLetters[k] = chars[i]
        THEN UpperCaseLetters[CHOOSE k \in DOMAIN LowerCaseLetters :
                                  LowerCaseLetters[k] = chars[i]]
        ELSE chars[i]]

toLowerCase(chars) ==
    [i \in DOMAIN chars |->
        IF \E k \in DOMAIN UpperCaseLetters : UpperCaseLetters[k] = chars[i]
        THEN LowerCaseLetters[CHOOSE k \in DOMAIN UpperCaseLetters :
                                  UpperCaseLetters[k] = chars[i]]
        ELSE chars[i]]

\* migration.ts:124, 129 the tests /^#[0-9A-Fa-f]{n}$/
HexDigits ==
    {"0", "1", "2", "3", "4", "5", "6", "7", "8", "9",
     "a", "b", "c", "d", "e", "f", "A", "B", "C", "D", "E", "F"}

IsHexColor(chars, n) ==
    /\ Len(chars) = n + 1
    /\ chars[1] = "#"
    /\ \A i \in 2..(n + 1) : chars[i] \in HexDigits

\* migration.ts:137 colorMap
colorMap ==
    [name \in {"yellow", "blue", "green", "pink", "purple", "orange"} |->
        CASE name = "yellow" -> "#FFF9E6"
          [] name = "blue" -> "#E3F2FD"
          [] name = "green" -> "#E8F5E9"
          [] name = "pink" -> "#FCE4EC"
          [] name = "purple" -> "#F3E5F5"
          [] name = "orange" -> "#FFF3E0"]

\* normalizeColor returning a six-digit colour as it was written.
normalizeColorKeepsCase(color) ==
    LET chars == Chars(color)
    IN  IF IsHexColor(chars, 6) THEN color
        ELSE IF IsHexColor(chars, 3)
        THEN Join(toUpperCase(<<"#", chars[2], chars[2], chars[3], chars[3],
                                chars[4], chars[4]>>))
        ELSE IF Join(toLowerCase(chars)) \in DOMAIN colorMap
        THEN colorMap[Join(toLowerCase(chars))]
        ELSE "#FFF9E6"

\* migration.ts:120 normalizeColor
normalizeColor(color) ==
    LET chars == Chars(color)
    IN  IF color = "" THEN "#FFF9E6"
        ELSE IF IsHexColor(chars, 6) THEN Join(toUpperCase(chars))
        ELSE IF IsHexColor(chars, 3)
        THEN Join(toUpperCase(<<"#", chars[2], chars[2], chars[3], chars[3],
                                chars[4], chars[4]>>))
        ELSE IF Join(toLowerCase(chars)) \in DOMAIN colorMap
        THEN colorMap[Join(toLowerCase(chars))]
        ELSE "#FFF9E6"

\* migration.ts:72 the required fields of a legacy note: `!oldNote.id ||
\* !oldNote.createdAt || !oldNote.updatedAt` throws
Migratable(oldNote) ==
    /\ "id" \in DOMAIN oldNote /\ oldNote.id # ""
    /\ "createdAt" \in DOMAIN oldNote /\ oldNote.createdAt # 0
    /\ "updatedAt" \in DOMAIN oldNote /\ oldNote.updatedAt # 0

\* migration.ts:152 logError: the entry pushed to MigrationManager.errors
\* (noteId is the note's id, undefined when it has none).
MigrationError(oldNote, error, t) ==
    Spread(IF "id" \in DOMAIN oldNote THEN [noteId |-> oldNote.id] ELSE << >>,
           [error |-> error, originalData |-> oldNote, timestamp |-> t])

\* The metadata of migrateNote without the legacy envelope.
MigratedMetadataWithoutEnvelope(oldNote) ==
    Spread(Pick(oldNote, {"tags", "pinned"}),
           [encrypted |-> "encrypted" \in DOMAIN oldNote /\ oldNote.encrypted])

\* migration.ts:91-96: the metadata object of migrateNote; a property that
\* is undefined is absent.
MigratedMetadata(oldNote) ==
    Spread(Spread(Pick(oldNote, {"tags", "pinned"}),
                  [encrypted |-> "encrypted" \in DOMAIN oldNote
                                   /\ oldNote.encrypted]),
           IF "encryptionMetadata" \in DOMAIN oldNote
           THEN [contentEncryptionMetadata |-> oldNote.encryptionMetadata]
           ELSE << >>)

\* migration.ts:65 migrateNote(oldNote, defaultPosition, defaultSize) at
\* time t: the new note and its metadata, or null and the error it logged.
\* In the model's notes pageURL null is the empty string.
migrateNote(oldNote, defaultPosition, defaultSize, t) ==
    IF ~Migratable(oldNote)
    THEN [ok |-> FALSE,
          logged |-> MigrationError(oldNote,
                        "Missing required fields: id, createdAt, or updatedAt", t)]
    ELSE [ok |-> TRUE,
          note |-> [id |-> oldNote.id,
                    createdAt |-> oldNote.createdAt,
                    updatedAt |-> oldNote.updatedAt,
                    title |-> OrElse(oldNote, "title", ""),
                    content |-> OrElse(oldNote, "content", ""),
                    color |-> normalizeColor(OrElse(oldNote, "color", "")),
                    position |-> DEFAULT_POSITIONS[defaultPosition],
                    size |-> DEFAULT_SIZES[defaultSize],
                    pageURL |-> IF OrElse(oldNote, "url", "") # ""
                                THEN normalizeUrl(oldNote.url) ELSE "",
                    masked |-> FALSE],
          metadata |-> MigratedMetadata(oldNote)]

\* migrateAllNotes without its test for entries that were migrated before.
NeverAlreadyMigrated(oldNote) == FALSE

\* migration.ts:215-219: the entry has position, size and its own pageURL
AlreadyMigrated(oldNote) ==
    {"position", "size", "pageURL"} \subseteq DOMAIN oldNote

\* migration.ts:209-238: the loop of migrateAllNotes from the n-th key of
\* `order` on, the order in which Object.entries yields the entries.
RECURSIVE MigrateFrom(_, _, _, _, _, _)
MigrateFrom(store, order, n, defaultPosition, defaultSize, t) ==
    IF n > Len(order) THEN [migrated |-> << >>, errors |-> << >>]
    ELSE LET key == order[n]
             rest == MigrateFrom(store, order, n + 1, defaultPosition,
                                 defaultSize, t)
             result == migrateNote(store[key], defaultPosition, defaultSize, t)
         IN  IF AlreadyMigrated(store[key]) THEN rest
             ELSE IF ~result.ok
             THEN [rest EXCEPT !.errors = <<result.logged>> \o @]
             ELSE [rest EXCEPT !.migrated =
                     <<[note |-> result.note,
                        metadata |-> result.metadata,
                        oldKey |-> key,
                        newKey |-> NoteKey(result.note.pageURL,
                                           result.note.id)]>> \o @]

\* migration.ts:198 migrateAllNotes(storage, defaultPosition, defaultSize)
migrateAllNotes(store, order, defaultPosition, defaultSize, t) ==
    LET done == MigrateFrom(store, order, 1, defaultPosition, defaultSize, t)
    IN  [migrated |-> done.migrated,
         failed |-> Len(done.errors),
         errors |-> done.errors]

\* The orders in which the entries of a set of keys may be yielded.
Orders(keys) ==
    {order \in [1..Cardinality(keys) -> keys] :
        \A i, j \in 1..Cardinality(keys) : order[i] = order[j] => i = j}

\* migration.ts:311-326: the object `updates` (a later migrated note
\* replaces an earlier one with its new key) and the list toDelete.
MigrationUpdates(migrated) ==
    LET keys == {migrated[n].newKey : n \in 1..Len(migrated)}
        last(k) == CHOOSE n \in 1..Len(migrated) :
                       /\ migrated[n].newKey = k
                       /\ \A m \in 1..Len(migrated) :
                             migrated[m].newKey = k => m <= n
    IN  [k \in keys |->
            Spread(migrated[last(k)].note,
                   [_metadata |-> migrated[last(k)].metadata])]

MigrationDeletes(migrated) ==
    {migrated[n].oldKey :
        n \in {n \in 1..Len(migrated) : migrated[n].oldKey # migrated[n].newKey}}

\* Runs of autoMigrate a behaviour may take.
MaxRuns == 2

\* migration.ts:274 autoMigrate.  `order` is the order in which the entries
\* of storage are yielded; `flagWritten` tells whether the write of the
\* completion flag went through (a rejected write is thrown on by the
\* catch).  exportErrors offers the error log as a download and changes
\* nothing in storage.
autoMigrate(order, flagWritten) ==
    LET settings == IF Has(storage, "settings") THEN storage["settings"]
                    ELSE << >>
        defaultPosition == OrElse(settings, "defaultNotePosition", "top-right")
        defaultSize == OrElse(settings, "defaultNoteSize", "medium")
        result == migrateAllNotes(storage, order, defaultPosition,
                                  defaultSize, now)
        saved == StorageRemove(
                     StorageSet(storage, MigrationUpdates(result.migrated)),
                     MigrationDeletes(result.migrated))
    IN  /\ event' = [type |-> "autoMigrate"]
        /\ IF Has(storage, "migration_v2_done") /\ storage["migration_v2_done"]
           THEN /\ response' = [resolved |-> TRUE]
                /\ UNCHANGED <<storage, errors>>
           ELSE /\ errors' = result.errors
                /\ IF flagWritten
                   THEN /\ storage' = StorageSet(saved,
                                          [migration_v2_done |-> TRUE])
                        /\ response' = [resolved |-> TRUE,
                                        migrated |-> Len(result.migrated),
                                        failed |-> result.failed]
                   ELSE /\ storage' = saved
                        /\ response' = [resolved |-> FALSE,
                                        migrated |-> Len(result.migrated),
                                        failed |-> result.failed]
        /\ UNCHANGED <<memory, manager, backup, timers, now, migrating, inflight, isLocked>>

AutoMigrate ==
    /\ runs < MaxRuns
    /\ runs' = runs + 1
    /\ \E order \in Orders(DOMAIN NoteEntries(storage)) :
          autoMigrate(order, TRUE)

AutoMigrateFlagLost ==
    /\ runs < MaxRuns
    /\ runs' = runs + 1
    /\ ~Has(storage, "migration_v2_done")
    /\ \E order \in Orders(DOMAIN NoteEntries(storage)) :
          autoMigrate(order, FALSE)

\* autoMigrate step by step.  Each await of a storage call is a point at
\* which the service worker may be stopped; `migrating` holds the step the
\* call has reached and its locals `updates`, `toDelete` and `result`.

\* migration.ts:284-326: the flag is read, all storage is read, the entries
\* are migrated in memory, `updates` and `toDelete` are built.
StartMigration(order) ==
    LET settings == IF Has(storage, "settings") THEN storage["settings"]
                    ELSE << >>
        defaultPosition == OrElse(settings, "defaultNotePosition", "top-right")
        defaultSize == OrElse(settings, "defaultNoteSize", "medium")
        result == migrateAllNotes(storage, order, defaultPosition,
                                  defaultSize, now)
    IN  /\ migrating = NULL
        /\ event' = [type |-> "autoMigrate", step |-> "read"]
        /\ IF Has(storage, "migration_v2_done") /\ storage["migration_v2_done"]
           THEN /\ response' = [resolved |-> TRUE]
                /\ UNCHANGED <<errors, migrating>>
           ELSE /\ errors' = result.errors
                /\ migrating' = [step |-> "set",
                                 updates |-> MigrationUpdates(result.migrated),
                                 toDelete |-> MigrationDeletes(result.migrated),
                                 migrated |-> Len(result.migrated),
                                 failed |-> result.failed]
                /\ response' = NULL
        /\ UNCHANGED <<memory, storage, manager, backup, timers, now, inflight, isLocked>>

\* migration.ts:329-332: chrome.storage.local.set(updates)
WriteUpdates ==
    /\ migrating # NULL
    /\ migrating.step = "set"
    /\ event' = [type |-> "autoMigrate", step |-> "set"]
    /\ storage' = IF DOMAIN migrating.updates # {}
                  THEN StorageSet(storage, migrating.updates) ELSE storage
    /\ migrating' = [migrating EXCEPT !.step = "remove"]
    /\ UNCHANGED <<memory, manager, errors, backup, timers, now, response,
                   runs, inflight, isLocked>>

\* migration.ts:335-338: chrome.storage.local.remove(toDelete)
RemoveOldKeys ==
    /\ migrating # NULL
    /\ migrating.step = "remove"
    /\ event' = [type |-> "autoMigrate", step |-> "remove"]
    /\ storage' = IF migrating.toDelete # {}
                  THEN StorageRemove(storage, migrating.toDelete) ELSE storage
    /\ migrating' = [migrating EXCEPT !.step = "flag"]
    /\ UNCHANGED <<memory, manager, errors, backup, timers, now, response,
                   runs, inflight, isLocked>>

\* migration.ts:341-352: the completion flag is set and the call resolves.
SetMigrationDone ==
    /\ migrating # NULL
    /\ migrating.step = "flag"
    /\ event' = [type |-> "autoMigrate", step |-> "flag"]
    /\ storage' = StorageSet(storage, [migration_v2_done |-> TRUE])
    /\ response' = [resolved |-> TRUE, migrated |-> migrating.migrated,
                    failed |-> migrating.failed]
    /\ migrating' = NULL
    /\ UNCHANGED <<memory, manager, errors, backup, timers, now, runs,
                   inflight, isLocked>>

\* The worker is stopped while autoMigrate waits for a storage call: the
\* call's locals and MigrationManager.errors are gone, storage stays.
WorkerStopped ==
    /\ migrating # NULL
    /\ event' = [type |-> "stopped", step |-> migrating.step]
    /\ migrating' = NULL
    /\ errors' = << >>
    /\ UNCHANGED <<memory, storage, manager, backup, timers, now, response,
                   runs, inflight, isLocked>>

AutoMigrateStarts ==
    /\ runs < MaxRuns
    /\ runs' = runs + 1
    /\ \E order \in Orders(DOMAIN NoteEntries(storage)) : StartMigration(order)

\* Legacy storage.  A note as the v1 worker stores it (background.js:291,
\* 301-308): the request's note with content, encrypted and
\* encryptionMetadata, under note:{normalizeUrl(url)}:{id} or note:{id}.
LegacyNote(id, url, color, content) ==
    Spread([id |-> id, title |-> "T1", content |-> content, color |-> color,
            createdAt |-> StartTime, updatedAt |-> StartTime,
            encrypted |-> FALSE, encryptionMetadata |-> NULL],
           IF url # "" THEN [url |-> url] ELSE << >>)

LegacyEncrypted(note) ==
    LET salt == Bytes(1)
        key == derivePINKey("1111", salt, salt).key
        envelope == encryptAESGCM(note.content, key, salt, Bytes(1))
    IN  Spread(note, [content |-> envelope.ciphertext, encrypted |-> TRUE,
                      encryptionMetadata |-> envelope])

\* What each key of a legacy storage may hold: v1 notes, plaintext and
\* encrypted; a page note kept under its id alone and entries without an
\* id or without timestamps, as in the storages of migration.test.js (131,
\* 274-300, 802-806); an entry that was migrated before.
LegacyEntries ==
    LET page == LegacyNote("n1", "https://a.com/p?q=1", "#abc", "T2")
    IN  [k \in {"note:n1", "note:https://a.com/p:n1", "note:corrupt-1"} |->
            CASE k = "note:n1" ->
                    {LegacyNote("n1", "", "yellow", "T1"),
                     LegacyNote("n1", "https://a.com/p", "Blue", "T1")}
              [] k = "note:https://a.com/p:n1" ->
                    {page,
                     LegacyEncrypted(page),
                     [f \in DOMAIN page \ {"updatedAt"} |-> page[f]],
                     Spread(migrateNote(page, "top-right", "medium",
                                        StartTime).note,
                            [_metadata |-> [encrypted |-> FALSE]])}
              [] k = "note:corrupt-1" ->
                    {[title |-> "T1", content |-> "T2",
                      createdAt |-> StartTime]}]

LegacyStorages ==
    {store \in UNION {[keys -> UNION {LegacyEntries[k] : k \in keys}] :
                        keys \in SUBSET DOMAIN LegacyEntries} :
        \A k \in DOMAIN store : store[k] \in LegacyEntries[k]}

\* The state in which the v2 extension starts over a legacy storage.
InitMigration ==
    /\ encryptionKey = NULL
    /\ encryptionSalt = NULL
    /\ autoLockTimer = 0
    /\ lockState = LockedState
    /\ storage \in {StorageSet(legacy, [settings |-> DEFAULT_SETTINGS]) :
                      legacy \in LegacyStorages}
    /\ timers = {}
    /\ now = StartTime + TickMs
    /\ event = [type |-> "INSTALLED"]
    /\ response = NULL
    /\ attempts = [count |-> 0, last |-> 0]
    /\ seen = NULL
    /\ manager = [encryptionKey |-> NULL, encryptionSalt |-> NULL,
                  currentPIN |-> NULL]
    /\ errors = << >>
    /\ backup = NULL
    /\ runs = 0
    /\ migrating = NULL
    /\ inflight = << >>
    /\ isLocked = TRUE

-----------------------------------------------------------------------------
(* Observers *)

\* part_000:217-218 PINValidator.MAX_ATTEMPTS, LOCKOUT_DURATION
MAX_ATTEMPTS == 5
LOCKOUT_DURATION == 900000

\* Counts the failed UNLOCKs since the last successful one and keeps the
\* time of the latest; the count stops at MAX_ATTEMPTS.
ObserveAttempts ==
    attempts' =
        IF event'.type # "UNLOCK" THEN attempts
        ELSE IF response'.success THEN [count |-> 0, last |-> 0]
        ELSE [count |-> IF attempts.count < MAX_ATTEMPTS
                        THEN attempts.count + 1 ELSE MAX_ATTEMPTS,
              last |-> now]

\* Keeps the plaintext a GET_NOTE returned for an encrypted record while
\* unlocked, notes a LOCK after it, and forgets it when a record is written.
ObserveReads ==
    seen' =
        CASE event'.type = "GET_NOTE" ->
                IF /\ response'.success
                   /\ encryptionKey # NULL
                   /\ response'.note._metadata.encrypted
                   /\ (seen = NULL \/ ~seen.relocked)
                THEN [id |-> event'.id, pageURL |-> event'.pageURL,
                      title |-> response'.note.title,
                      content |-> response'.note.content,
                      pin |-> encryptionKey.pin, relocked |-> FALSE]
                ELSE seen
          [] event'.type = "LOCK" ->
                IF seen = NULL THEN seen ELSE [seen EXCEPT !.relocked = TRUE]
          [] event'.type \in {"CREATE_NOTE", "UPDATE_NOTE", "DELETE_NOTE",
                              "IMPORT_NOTES"} -> NULL
          [] OTHER -> seen

-----------------------------------------------------------------------------
(* Specifications *)

\* The lock controller: unlock, lock, the auto-lock timeout, the settings
\* and PIN handlers, and the clock.  The note handlers leave the worker's
\* memory, its timeouts and every non-note key of storage unchanged, so the
\* lock controller's reachable states are the same with and without them.
Next ==
    \/ Unlock /\ UNCHANGED observers /\ UNCHANGED outside
    \/ Lock /\ UNCHANGED observers /\ UNCHANGED outside
    \/ LockNowCommand /\ UNCHANGED observers /\ UNCHANGED outside
    \/ AutoLockFires /\ UNCHANGED observers /\ UNCHANGED outside
    \/ Tick /\ UNCHANGED observers /\ UNCHANGED outside
    \/ UpdateSettings /\ UNCHANGED observers /\ UNCHANGED outside
    \/ SetPIN /\ UNCHANGED observers /\ UNCHANGED outside

Spec == Init /\ [][Next]_vars

\* The lock controller's PIN check with the run of failed attempts observed.
NextLockout ==
    \/ Unlock /\ ObserveAttempts /\ UNCHANGED seen /\ UNCHANGED outside
    \/ Lock /\ UNCHANGED observers /\ UNCHANGED outside
    \/ SetPIN /\ UNCHANGED observers /\ UNCHANGED outside
    \/ Tick /\ UNCHANGED observers /\ UNCHANGED outside

SpecLockout == Init /\ [][NextLockout]_vars

\* The record store: the note handlers together with unlock, lock, SET_PIN
\* and the encryption switch, at one instant of the clock (no timeout comes
\* due; AutoLockFires does what Lock does), with the reads observed.
EncryptionSwitch ==
    \E b \in BOOLEAN : handleUpdateSettings([encryptionEnabled |-> b])

NextNotes ==
    \/ Unlock /\ UNCHANGED observers /\ UNCHANGED outside
    \/ Lock /\ ObserveReads /\ UNCHANGED attempts /\ UNCHANGED outside
    \/ SetPIN /\ UNCHANGED observers /\ UNCHANGED outside
    \/ EncryptionSwitch /\ UNCHANGED observers /\ UNCHANGED outside
    \/ CreateNote /\ ObserveReads /\ UNCHANGED attempts /\ UNCHANGED outside
    \/ GetNote /\ ObserveReads /\ UNCHANGED attempts /\ UNCHANGED outside
    \/ UpdateNote /\ ObserveReads /\ UNCHANGED attempts /\ UNCHANGED outside
    \/ DeleteNote /\ ObserveReads /\ UNCHANGED attempts /\ UNCHANGED outside
    \/ ImportNotes /\ ObserveReads /\ UNCHANGED attempts /\ UNCHANGED outside

SpecNotes == Init /\ [][NextNotes]_vars
\* The listing: records in two page scopes, created, updated, deleted and
\* imported (damaged copies included) under the keys of two PINs, and listed
\* with and without a scope filter.
NextListing ==
    \/ Unlock /\ UNCHANGED observers /\ UNCHANGED outside
    \/ Lock /\ UNCHANGED observers /\ UNCHANGED outside
    \/ CreateScopedNote /\ UNCHANGED observers /\ UNCHANGED outside
    \/ UpdateScopedNote /\ UNCHANGED observers /\ UNCHANGED outside
    \/ DeleteScopedNote /\ UNCHANGED observers /\ UNCHANGED outside
    \/ ImportNotes /\ UNCHANGED observers /\ UNCHANGED outside
    \/ GetAllNotes /\ UNCHANGED observers /\ UNCHANGED outside

SpecListing == Init /\ [][NextListing]_vars


\* Backup and restore through the service worker: records of two page
\* scopes created locked and unlocked, exported, cleared and imported from
\* the user's export file.
NextBackup ==
    \/ Unlock /\ UNCHANGED observers /\ UNCHANGED outside
    \/ Lock /\ UNCHANGED observers /\ UNCHANGED outside
    \/ CreateScopedNote /\ UNCHANGED observers /\ UNCHANGED outside
    \/ ExportNotes /\ UNCHANGED observers /\ UNCHANGED <<manager, errors, runs, migrating, inflight, isLocked>>
    \/ ClearNotes /\ UNCHANGED observers /\ UNCHANGED outside
    \/ ImportBackup /\ UNCHANGED observers /\ UNCHANGED outside

SpecBackup == Init /\ [][NextBackup]_vars

\* Import of files that did not come from an export: well-formed and
\* malformed records over records created locked and unlocked.
NextImport ==
    \/ Unlock /\ UNCHANGED observers /\ UNCHANGED outside
    \/ CreateScopedNote /\ UNCHANGED observers /\ UNCHANGED outside
    \/ ClearNotes /\ UNCHANGED observers /\ UNCHANGED outside
    \/ ImportFile /\ UNCHANGED observers /\ UNCHANGED outside

SpecImport == Init /\ [][NextImport]_vars

\* StorageManager on its own: notes saved locked and unlocked, under the
\* keys of two PINs, exported, cleared and imported from the export.
NextManager ==
    \/ ManagerUnlock /\ UNCHANGED observers /\ UNCHANGED <<errors, backup, runs, migrating, inflight, isLocked>>
    \/ lockEncryption /\ UNCHANGED observers /\ UNCHANGED <<errors, backup, runs, migrating, inflight, isLocked>>
    \/ ManagerSave /\ UNCHANGED observers /\ UNCHANGED <<errors, backup, runs, migrating, inflight, isLocked>>
    \/ ManagerExport /\ UNCHANGED observers /\ UNCHANGED <<errors, runs, migrating, inflight, isLocked>>
    \/ ManagerImport /\ UNCHANGED observers /\ UNCHANGED <<errors, backup, runs, migrating, inflight, isLocked>>
    \/ clearAllNotes /\ UNCHANGED observers /\ UNCHANGED <<errors, backup, runs, migrating, inflight, isLocked>>

SpecManager == Init /\ [][NextManager]_vars

\* The migration of a legacy storage: autoMigrate run up to MaxRuns times,
\* the completion flag written or not.
NextMigration ==
    \/ AutoMigrate /\ UNCHANGED observers
    \/ AutoMigrateFlagLost /\ UNCHANGED observers

SpecMigration == InitMigration /\ [][NextMigration]_vars

\* One call of MigrationManager.migrateNote on a legacy entry.  The entries:
\* the v1 note of the field-mapping example with each colour and each
\* address, without some of its fields, plaintext or encrypted.
LegacyColors ==
    {"", "#e3f2fd", "#FFF9E6", "#Ab12cD", "#12345g", "e3f2fd", "#abc", "#F0d",
     "#xyz", "yellow", "blue", "Blue", "green", "pink", "PURPLE", "orange",
     "red"}

LegacyURLs ==
    {"", "https://ex.com/a?x=1#h", "https://a.com:443/p",
     "http://a.com:443/p?q=1", "https://b.com:8443/a#h", "http://a.com/p",
     "https://a.com/p?q=1", "invalid-url"}

OldNote(url, color) ==
    Spread([id |-> "n1", title |-> "T", content |-> "C", color |-> color,
            createdAt |-> 1000, updatedAt |-> 1000, encrypted |-> FALSE],
           IF url # "" THEN [url |-> url] ELSE << >>)

OldNotes ==
    LET whole == {OldNote(url, "yellow") : url \in LegacyURLs}
                    \cup {OldNote("https://ex.com/a?x=1#h", color) :
                            color \in LegacyColors}
        stored == whole
                    \cup {Spread(n, [encryptionMetadata |-> NULL]) : n \in whole}
                    \cup {LegacyEncrypted(n) : n \in whole}
        dropped == {{}, {"title"}, {"content"}, {"title", "content"},
                    {"color"}, {"encrypted"}, {"id"}, {"createdAt"},
                    {"updatedAt"}}
    IN  {[f \in DOMAIN n \ d |-> n[f]] : n \in stored, d \in dropped}

MigrateNoteDefaults ==
    {<<"top-right", "medium">>, <<"top-left", "small">>,
     <<"bottom-right", "large">>, <<"bottom-left", "medium">>}

InitMigrateNote ==
    /\ encryptionKey = NULL
    /\ encryptionSalt = NULL
    /\ autoLockTimer = 0
    /\ lockState = LockedState
    /\ storage = [settings |-> DEFAULT_SETTINGS]
    /\ timers = {}
    /\ now = StartTime
    /\ event \in {[type |-> "migrateNote", oldNote |-> n,
                    defaultPosition |-> d[1], defaultSize |-> d[2]] :
                      n \in OldNotes, d \in MigrateNoteDefaults}
    /\ response = NULL
    /\ attempts = [count |-> 0, last |-> 0]
    /\ seen = NULL
    /\ manager = [encryptionKey |-> NULL, encryptionSalt |-> NULL,
                  currentPIN |-> NULL]
    /\ errors = << >>
    /\ backup = NULL
    /\ runs = 0
    /\ migrating = NULL
    /\ inflight = << >>
    /\ isLocked = TRUE

\* migration.ts:65-103: the call returns the note and its metadata, or logs
\* the error and returns null.
MigrateNote ==
    LET result == migrateNote(event.oldNote, event.defaultPosition,
                              event.defaultSize, now)
    IN  /\ event.type = "migrateNote"
        /\ runs = 0
        /\ runs' = 1
        /\ response' = IF result.ok
                       THEN [note |-> result.note, metadata |-> result.metadata]
                       ELSE NULL
        /\ errors' = IF result.ok THEN errors
                     ELSE Append(errors, result.logged)
        /\ UNCHANGED <<memory, storage, timers, now, event, observers,
                       manager, backup, migrating, inflight, isLocked>>

NextMigrateNote == MigrateNote

SpecMigrateNote == InitMigrateNote /\ [][NextMigrateNote]_vars

\* The v2 worker over a legacy storage whose notes the v1 worker encrypted
\* under the PIN "1111" with the salt it persisted (background.js:233-249):
\* the migration, UNLOCK and GET_NOTE for the notes' keys.
InitMigratedRead ==
    /\ encryptionKey = NULL
    /\ encryptionSalt = NULL
    /\ autoLockTimer = 0
    /\ lockState = LockedState
    /\ storage \in {StorageSet(legacy,
                                [settings |-> DEFAULT_SETTINGS,
                                 encryptionSalt |-> arrayBufferToBase64(Bytes(1))]) :
                      legacy \in LegacyStorages}
    /\ timers = {}
    /\ now = StartTime + TickMs
    /\ event = [type |-> "INSTALLED"]
    /\ response = NULL
    /\ attempts = [count |-> 0, last |-> 0]
    /\ seen = NULL
    /\ manager = [encryptionKey |-> NULL, encryptionSalt |-> NULL,
                  currentPIN |-> NULL]
    /\ errors = << >>
    /\ backup = NULL
    /\ runs = 0
    /\ migrating = NULL
    /\ inflight = << >>
    /\ isLocked = TRUE

ReadMigrated ==
    \E id \in NoteIds, pageURL \in {"", "https://a.com/p"} :
        handleGetNote(id, pageURL)

NextMigratedRead ==
    \/ AutoMigrate /\ UNCHANGED observers
    \/ Unlock /\ UNCHANGED observers /\ UNCHANGED outside
    \/ ReadMigrated /\ UNCHANGED observers /\ UNCHANGED outside

SpecMigratedRead == InitMigratedRead /\ [][NextMigratedRead]_vars

\* The worker behind its message gate, over a storage in which the
\* persisted salt is absent, well formed or not base64.
InitMessages ==
    /\ encryptionKey = NULL
    /\ encryptionSalt = NULL
    /\ autoLockTimer = 0
    /\ lockState = LockedState
    /\ storage \in {[settings |-> DEFAULT_SETTINGS,
                      lockState |-> LockedState,
                      migration_v2_done |-> TRUE]}
                    \cup {[settings |-> DEFAULT_SETTINGS,
                           lockState |-> LockedState,
                           migration_v2_done |-> TRUE,
                           encryptionSalt |-> salt] :
                            salt \in {arrayBufferToBase64(Bytes(1)),
                                      "*not base64*"}}
    /\ timers = {}
    /\ now = StartTime
    /\ event = [type |-> "INSTALLED"]
    /\ response = NULL
    /\ attempts = [count |-> 0, last |-> 0]
    /\ seen = NULL
    /\ manager = [encryptionKey |-> NULL, encryptionSalt |-> NULL,
                  currentPIN |-> NULL]
    /\ errors = << >>
    /\ backup = NULL
    /\ runs = 0
    /\ migrating = NULL
    /\ inflight = << >>
    /\ isLocked = TRUE

NextMessages ==
    \/ AllowedMessage /\ UNCHANGED observers /\ UNCHANGED outside
    \/ RefusedMessage /\ UNCHANGED observers /\ UNCHANGED outside

SpecMessages == InitMessages /\ [][NextMessages]_vars

\* Calls of CryptoManager.derivePINKey and CryptoManager.decrypt.  The
\* salts of SaltValues are 32 bytes long (CRYPTO_CONFIG.saltLength);
\* ShortSalt is a salt of 16 bytes.
ShortSalt == [kind |-> "bytes", v |-> 0, byteLength |-> 16]

CryptoKeys ==
    {derivePINKey(pin, salt, salt).key : pin \in PINS, salt \in SaltValues}

\* What reaches decrypt in place of the envelope encrypt returned.
Tampers ==
    {"none", "ciphertext", "ciphertext malformed", "nonce", "nonce malformed",
     "no ciphertext", "no nonce", "null"}

Tampered(envelope, how) ==
    CASE how = "none" -> envelope
      [] how = "ciphertext" -> [envelope EXCEPT !.ciphertext = "damaged"]
      [] how = "ciphertext malformed" ->
            [envelope EXCEPT !.ciphertext = "*not base64*"]
      [] how = "nonce" ->
            [envelope EXCEPT !.iv =
                CHOOSE iv \in {arrayBufferToBase64(b) : b \in IvValues} :
                    iv # envelope.iv]
      [] how = "nonce malformed" -> [envelope EXCEPT !.iv = "*not base64*"]
      [] how = "no ciphertext" ->
            [f \in DOMAIN envelope \ {"ciphertext"} |-> envelope[f]]
      [] how = "no nonce" -> [f \in DOMAIN envelope \ {"iv"} |-> envelope[f]]
      [] how = "null" -> NULL

DerivePINKeyCalls ==
    {[type |-> "derivePINKey", pin |-> pin, salt |-> salt, random |-> random] :
        pin \in PINS \cup {""},
        salt \in SaltValues \cup {ShortSalt, NULL},
        random \in SaltValues}

DecryptCalls ==
    {[type |-> "decrypt",
      encrypted |-> Tampered(CryptoManagerEncrypt(P, K, K.salt, iv), how),
      key |-> key, plaintext |-> P, encryptedUnder |-> K, tamper |-> how] :
        P \in Texts, K \in CryptoKeys, iv \in IvValues, how \in Tampers,
        key \in CryptoKeys \cup {NULL}}

InitCrypto ==
    /\ encryptionKey = NULL
    /\ encryptionSalt = NULL
    /\ autoLockTimer = 0
    /\ lockState = LockedState
    /\ storage = [settings |-> DEFAULT_SETTINGS]
    /\ timers = {}
    /\ now = StartTime
    /\ event \in DerivePINKeyCalls \cup DecryptCalls
    /\ response = NULL
    /\ attempts = [count |-> 0, last |-> 0]
    /\ seen = NULL
    /\ manager = [encryptionKey |-> NULL, encryptionSalt |-> NULL,
                  currentPIN |-> NULL]
    /\ errors = << >>
    /\ backup = NULL
    /\ runs = 0
    /\ migrating = NULL
    /\ inflight = << >>
    /\ isLocked = TRUE

DerivePINKeyCall ==
    /\ event.type = "derivePINKey"
    /\ runs = 0
    /\ runs' = 1
    /\ response' = CryptoManagerDerivePINKey(event.pin, event.salt, event.random)
    /\ UNCHANGED <<memory, storage, timers, now, event, observers, manager,
                   errors, backup, migrating, inflight, isLocked>>

DecryptCall ==
    /\ event.type = "decrypt"
    /\ runs = 0
    /\ runs' = 1
    /\ response' = CryptoManagerDecrypt(event.encrypted, event.key)
    /\ UNCHANGED <<memory, storage, timers, now, event, observers, manager,
                   errors, backup, migrating, inflight, isLocked>>

NextCrypto ==
    \/ DerivePINKeyCall
    \/ DecryptCall

SpecCrypto == InitCrypto /\ [][NextCrypto]_vars

-----------------------------------------------------------------------------
(* PINValidator *)

\* part_000:215-216 PINValidator.MIN_LENGTH, MAX_LENGTH
MIN_LENGTH == 4
MAX_LENGTH == 8

\* The longest PIN text that is tried.
MaxPinLength == 9

Digits == {"0", "9"}
PinCharacters == Digits \cup {"a"}

\* What a caller can pass as pin: a string, given by its characters, a
\* number, given by its decimal digits, or null.
String(chars) == [kind |-> "string", chars |-> chars]
Number(chars) == [kind |-> "number", chars |-> chars]

\* pin.length: a string's length; undefined for a number, which compares
\* false with everything.
HasLength(pin) == pin.kind = "string"

\* /^\d+$/.test(pin), which converts its argument to a string first.
OnlyDigits(pin) ==
    /\ Len(pin.chars) > 0
    /\ \A k \in 1..Len(pin.chars) : pin.chars[k] \in Digits

\* part_000:223 PINValidator.isValidPIN
isValidPIN(pin) ==
    LET notString ==
            IF pin = NULL \/ pin.kind # "string" \/ pin.chars = << >>
            THEN <<"PIN must be a string">> ELSE << >>
    IN  IF pin = NULL THEN [thrown |-> "TypeError"]
        ELSE LET tooShort ==
                     IF HasLength(pin) /\ Len(pin.chars) < MIN_LENGTH
                     THEN <<"PIN must be at least 4 digits">> ELSE << >>
                 tooLong ==
                     IF HasLength(pin) /\ Len(pin.chars) > MAX_LENGTH
                     THEN <<"PIN must be at most 8 digits">> ELSE << >>
                 notDigits ==
                     IF ~OnlyDigits(pin)
                     THEN <<"PIN must contain only digits">> ELSE << >>
                 errs == notString \o tooShort \o tooLong \o notDigits
             IN  [valid |-> Len(errs) = 0, errors |-> errs]

\* isLockedOut comparing with <= in place of <.
isLockedOutInclusive(lastAttempt, attemptCount, dateNow) ==
    IF attemptCount < MAX_ATTEMPTS THEN FALSE
    ELSE dateNow - lastAttempt <= LOCKOUT_DURATION

\* part_000:248 PINValidator.isLockedOut, with Date.now() as dateNow
isLockedOut(lastAttempt, attemptCount, dateNow) ==
    IF attemptCount < MAX_ATTEMPTS THEN FALSE
    ELSE dateNow - lastAttempt < LOCKOUT_DURATION

\* Math.ceil(n / d) for an integer n and a positive d.
Ceil(n, d) == -((-n) \div d)

\* part_000:260 PINValidator.getLockoutRemainingTime
getLockoutRemainingTime(lastAttempt, dateNow) ==
    LET elapsed == dateNow - lastAttempt
        remaining == LOCKOUT_DURATION - elapsed
    IN  Ceil(remaining, 1000)

RECURSIVE CharSequences(_)
CharSequences(n) ==
    IF n = 0 THEN {<< >>}
    ELSE LET shorter == CharSequences(n - 1)
         IN  shorter \cup {Append(chars, c) : chars \in shorter,
                                              c \in PinCharacters}

PinInputs ==
    {String(chars) : chars \in CharSequences(MaxPinLength)}
        \cup {Number(<<"9", "0", "9", "0">>), NULL}

\* The time of the call and, relative to it, the times of the last attempt:
\* around the call, around the end of the lockout and long before.
ValidatorTime == 2 * LOCKOUT_DURATION

ElapsedTimes ==
    {0 - 1000, 0 - 1, 0, 1, 999, 1000, 1001,
     LOCKOUT_DURATION - 1001, LOCKOUT_DURATION - 1000, LOCKOUT_DURATION - 999,
     LOCKOUT_DURATION - 1, LOCKOUT_DURATION, LOCKOUT_DURATION + 1,
     LOCKOUT_DURATION + 999, LOCKOUT_DURATION + 1000, LOCKOUT_DURATION + 1001,
     ValidatorTime}

ValidatorCalls ==
    {[type |-> "isValidPIN", pin |-> pin] : pin \in PinInputs}
        \cup {[type |-> "isLockedOut", lastAttempt |-> ValidatorTime - elapsed,
                attemptCount |-> count] :
                  elapsed \in ElapsedTimes, count \in 0..(MAX_ATTEMPTS + 1)}
        \cup {[type |-> "getLockoutRemainingTime",
                lastAttempt |-> ValidatorTime - elapsed] :
                  elapsed \in ElapsedTimes}

InitValidator ==
    /\ encryptionKey = NULL
    /\ encryptionSalt = NULL
    /\ autoLockTimer = 0
    /\ lockState = LockedState
    /\ storage = [settings |-> DEFAULT_SETTINGS]
    /\ timers = {}
    /\ now = ValidatorTime
    /\ event \in ValidatorCalls
    /\ response = NULL
    /\ attempts = [count |-> 0, last |-> 0]
    /\ seen = NULL
    /\ manager = [encryptionKey |-> NULL, encryptionSalt |-> NULL,
                  currentPIN |-> NULL]
    /\ errors = << >>
    /\ backup = NULL
    /\ runs = 0
    /\ migrating = NULL
    /\ inflight = << >>
    /\ isLocked = TRUE

IsValidPINCall ==
    /\ event.type = "isValidPIN"
    /\ runs = 0
    /\ runs' = 1
    /\ response' = isValidPIN(event.pin)
    /\ UNCHANGED <<memory, storage, timers, now, event, observers, manager,
                   errors, backup, migrating, inflight, isLocked>>

IsLockedOutCall ==
    /\ event.type = "isLockedOut"
    /\ runs = 0
    /\ runs' = 1
    /\ response' =
          [returned |-> isLockedOut(event.lastAttempt, event.attemptCount, now)]
    /\ UNCHANGED <<memory, storage, timers, now, event, observers, manager,
                   errors, backup, migrating, inflight, isLocked>>

GetLockoutRemainingTimeCall ==
    /\ event.type = "getLockoutRemainingTime"
    /\ runs = 0
    /\ runs' = 1
    /\ response' = [returned |-> getLockoutRemainingTime(event.lastAttempt, now)]
    /\ UNCHANGED <<memory, storage, timers, now, event, observers, manager,
                   errors, backup, migrating, inflight, isLocked>>

NextValidator ==
    \/ IsValidPINCall
    \/ IsLockedOutCall
    \/ GetLockoutRemainingTimeCall

SpecValidator == InitValidator /\ [][NextValidator]_vars

\* The migration of a legacy storage step by step, the worker stopped at
\* any step and autoMigrate run again at the next start.
InitMigrationSteps ==
    /\ encryptionKey = NULL
    /\ encryptionSalt = NULL
    /\ autoLockTimer = 0
    /\ lockState = LockedState
    /\ storage \in {StorageSet(legacy, [settings |-> DEFAULT_SETTINGS]) :
                      legacy \in LegacyStorages}
    /\ timers = {}
    /\ now = StartTime + TickMs
    /\ event = [type |-> "INSTALLED"]
    /\ response = NULL
    /\ attempts = [count |-> 0, last |-> 0]
    /\ seen = [legacy |-> storage]
    /\ manager = [encryptionKey |-> NULL, encryptionSalt |-> NULL,
                  currentPIN |-> NULL]
    /\ errors = << >>
    /\ backup = NULL
    /\ runs = 0
    /\ migrating = NULL
    /\ inflight = << >>
    /\ isLocked = TRUE

NextMigrationSteps ==
    \/ AutoMigrateStarts /\ UNCHANGED observers
    \/ WriteUpdates /\ UNCHANGED observers
    \/ RemoveOldKeys /\ UNCHANGED observers
    \/ SetMigrationDone /\ UNCHANGED observers
    \/ WorkerStopped /\ UNCHANGED observers

SpecMigrationSteps == InitMigrationSteps /\ [][NextMigrationSteps]_vars

-----------------------------------------------------------------------------
(* Message handlers step by step *)

\* Requests the worker may be serving at once.
MaxInflight == 2

\* A request is received: its handler is called and has not yet reached
\* storage.
Receive(request, limit) ==
    /\ Len(inflight) < limit
    /\ inflight' = Append(inflight, [request |-> request, step |-> "received"])
    /\ event' = [type |-> "received", request |-> request]
    /\ UNCHANGED <<memory, storage, timers, now, response, manager, errors,
                   backup, runs, migrating,
                   isLocked>>

\* The handler of request i has called sendResponse.
Answered(i, answer) ==
    [inflight EXCEPT ![i] = [request |-> @.request, step |-> "done",
                             response |-> answer]]

AllAnswered ==
    /\ Len(inflight) = MaxInflight
    /\ \A i \in 1..Len(inflight) : inflight[i].step = "done"

\* The UPDATE_NOTE requests of the UI: title and content, and optionally a
\* colour or the masked flag (part_000:785-788).
UpdateRequests ==
    {Spread([id |-> i, title |-> t, content |-> t, pageURL |-> ""], more) :
        i \in NoteIds, t \in Texts,
        more \in {<< >>, [color |-> "#E3F2FD"], [masked |-> TRUE]}}

NoteMutations ==
    {[type |-> "UPDATE_NOTE", note |-> note] : note \in UpdateRequests}
        \cup {[type |-> "CREATE_NOTE", note |-> note] : note \in UpdateRequests}
        \cup {[type |-> "DELETE_NOTE", id |-> i, pageURL |-> ""] : i \in NoteIds}

MutationKey(request) ==
    IF request.type = "DELETE_NOTE" THEN NoteKey(request.pageURL, request.id)
    ELSE NoteKey(OrElse(request.note, "pageURL", ""), request.note.id)

\* part_000:758-764: the callback of handleUpdateNote's storage.get runs
\* with the record as it was when the read was served.
UpdateNoteReads(i) ==
    LET request == inflight[i].request
        noteKey == MutationKey(request)
    IN  /\ inflight[i].step = "received"
        /\ request.type = "UPDATE_NOTE"
        /\ event' = [type |-> "UPDATE_NOTE", step |-> "get"]
        /\ IF ~Has(storage, noteKey)
           THEN /\ response' = [success |-> FALSE, error |-> "Note not found"]
                /\ inflight' = Answered(i, response')
           ELSE /\ inflight' = [inflight EXCEPT ![i] =
                                   [request |-> request, step |-> "read",
                                    existingNote |-> storage[noteKey]]]
                /\ UNCHANGED response
        /\ UNCHANGED <<memory, storage, timers, now, manager, errors, backup,
                       runs, migrating,
                   isLocked>>

\* part_000:766-804: the record built from what was read is stored and the
\* request answered.
UpdateNoteWrites(i) ==
    LET request == inflight[i].request
        noteKey == MutationKey(request)
    IN  /\ inflight[i].step = "read"
        /\ request.type = "UPDATE_NOTE"
        /\ event' = [type |-> "UPDATE_NOTE", step |-> "set"]
        /\ storage' =
              StorageSet(storage,
                  [k \in {noteKey} |->
                      UpdatedNote(inflight[i].existingNote, request.note,
                                  encryptionKey, encryptionSalt,
                                  LoadSettings(storage), UsedIvs(storage), now)])
        /\ response' = [success |-> TRUE]
        /\ inflight' = Answered(i, response')
        /\ UNCHANGED <<memory, timers, now, manager, errors, backup, runs,
                       migrating,
                   isLocked>>

\* part_000:640-644: handleCreateNote's one storage call and its answer.
CreateNoteWrites(i) ==
    LET request == inflight[i].request
    IN  /\ inflight[i].step = "received"
        /\ request.type = "CREATE_NOTE"
        /\ event' = [type |-> "CREATE_NOTE", step |-> "set"]
        /\ storage' =
              StorageSet(storage,
                  [k \in {MutationKey(request)} |->
                      StoredNote(request.note, encryptionKey, encryptionSalt,
                                 LoadSettings(storage), UsedIvs(storage), now)])
        /\ response' = [success |-> TRUE, id |-> request.note.id]
        /\ inflight' = Answered(i, response')
        /\ UNCHANGED <<memory, timers, now, manager, errors, backup, runs,
                       migrating,
                   isLocked>>

\* part_000:817-819: handleDeleteNote's one storage call and its answer.
DeleteNoteRemoves(i) ==
    LET request == inflight[i].request
    IN  /\ inflight[i].step = "received"
        /\ request.type = "DELETE_NOTE"
        /\ event' = [type |-> "DELETE_NOTE", step |-> "remove"]
        /\ storage' = StorageRemove(storage, {MutationKey(request)})
        /\ response' = [success |-> TRUE]
        /\ inflight' = Answered(i, response')
        /\ UNCHANGED <<memory, timers, now, manager, errors, backup, runs,
                       migrating,
                   isLocked>>

\* Two mutations of one note, received in any order and served step by
\* step, over a storage that holds the note or does not.  The worker is
\* locked, so records are stored as plain text.
InitNoteRaces ==
    /\ encryptionKey = NULL
    /\ encryptionSalt = NULL
    /\ autoLockTimer = 0
    /\ lockState = LockedState
    /\ storage \in
          LET empty == [settings |-> DEFAULT_SETTINGS,
                        lockState |-> LockedState,
                        migration_v2_done |-> TRUE]
          IN  {empty} \cup
              {StorageSet(empty,
                   [k \in {NoteKey("", note.id)} |->
                       StoredNote(note, NULL, NULL, DEFAULT_SETTINGS, {},
                                  StartTime)]) :
                 note \in {n \in UpdateRequests : DOMAIN n =
                              {"id", "title", "content", "pageURL"}}}
    /\ timers = {}
    /\ now = StartTime + TickMs
    /\ event = [type |-> "INSTALLED"]
    /\ response = NULL
    /\ attempts = [count |-> 0, last |-> 0]
    /\ seen = [before |-> storage]
    /\ manager = [encryptionKey |-> NULL, encryptionSalt |-> NULL,
                  currentPIN |-> NULL]
    /\ errors = << >>
    /\ backup = NULL
    /\ runs = 0
    /\ migrating = NULL
    /\ inflight = << >>
    /\ isLocked = TRUE

ReceiveNoteMutation ==
    \E request \in NoteMutations : Receive(request, MaxInflight)

NextNoteRaces ==
    \/ ReceiveNoteMutation /\ UNCHANGED observers
    \/ (\E i \in 1..Len(inflight) : UpdateNoteReads(i)) /\ UNCHANGED observers
    \/ (\E i \in 1..Len(inflight) : UpdateNoteWrites(i)) /\ UNCHANGED observers
    \/ (\E i \in 1..Len(inflight) : CreateNoteWrites(i)) /\ UNCHANGED observers
    \/ (\E i \in 1..Len(inflight) : DeleteNoteRemoves(i)) /\ UNCHANGED observers

SpecNoteRaces == InitNoteRaces /\ [][NextNoteRaces]_vars

\* Notes created and updated while the clock advances.  A CREATE_NOTE may
\* carry the createdAt its sender chose (part_000:621): none, zero, a time
\* before the worker's clock or one after it.
ClientTimes == {0, StartTime, MaxTime + TickMs}

TimedNoteRequests ==
    NoteRequests \cup
    {Spread(note, [createdAt |-> t]) : note \in NoteRequests, t \in ClientTimes}

CreateTimedNote == \E note \in TimedNoteRequests : handleCreateNote(note)

NextTimestamps ==
    \/ Tick /\ UNCHANGED observers /\ UNCHANGED outside
    \/ CreateTimedNote /\ UNCHANGED observers /\ UNCHANGED outside
    \/ UpdateNote /\ UNCHANGED observers /\ UNCHANGED outside

SpecTimestamps == Init /\ [][NextTimestamps]_vars

\* Page notes created with the address of the page as the sender has it:
\* plain, with a query string, with a fragment, with the default port; and
\* read and deleted by the normalised address.
PageAddresses ==
    {"", "https://a.com/p", "https://a.com/p?q=1", "https://a.com/p#h",
     "https://a.com:443/p"}

AddressedNoteRequests ==
    {[id |-> i, title |-> t, content |-> "T1", pageURL |-> u] :
        i \in NoteIds, t \in Texts, u \in PageAddresses}

CreateAddressedNote ==
    \E note \in AddressedNoteRequests : handleCreateNote(note)

GetAddressedNote ==
    \E id \in NoteIds, url \in PageAddresses :
        handleGetNote(id, normalizeUrl(url))

DeleteAddressedNote ==
    \E id \in NoteIds, url \in PageAddresses :
        handleDeleteNote(id, normalizeUrl(url))

NextAddresses ==
    \/ CreateAddressedNote /\ UNCHANGED observers /\ UNCHANGED outside
    \/ GetAddressedNote /\ UNCHANGED observers /\ UNCHANGED outside
    \/ DeleteAddressedNote /\ UNCHANGED observers /\ UNCHANGED outside
    \/ ImportNotes /\ UNCHANGED observers /\ UNCHANGED outside

SpecAddresses == Init /\ [][NextAddresses]_vars

\* The browser stops the idle service worker and starts it again for the
\* next event: the module is evaluated anew (part_000:345-349), its pending
\* timeouts are gone, chrome.storage.local is kept, and onInstalled does
\* not run.
WorkerRestart ==
    /\ encryptionKey' = NULL
    /\ encryptionSalt' = NULL
    /\ autoLockTimer' = 0
    /\ lockState' = LockedState
    /\ timers' = {}
    /\ event' = [type |-> "restart"]
    /\ response' = NULL
    /\ UNCHANGED <<storage, now>>

NextRestart ==
    \/ Unlock /\ UNCHANGED observers /\ UNCHANGED outside
    \/ Lock /\ UNCHANGED observers /\ UNCHANGED outside
    \/ AutoLockFires /\ UNCHANGED observers /\ UNCHANGED outside
    \/ Tick /\ UNCHANGED observers /\ UNCHANGED outside
    \/ SetPIN /\ UNCHANGED observers /\ UNCHANGED outside
    \/ WorkerRestart /\ UNCHANGED observers /\ UNCHANGED outside
    \/ handleGetLockState /\ UNCHANGED observers /\ UNCHANGED outside

SpecRestart == Init /\ [][NextRestart]_vars

\* UNLOCK requests the worker may be serving at once.
MaxUnlocks == 3

\* part_000:530-536: the callback of handleUnlock's read of the settings
\* compares the PIN's hash with the stored one.
UnlockReadsSettings(i) ==
    LET request == inflight[i].request
        settings == LoadSettings(storage)
    IN  /\ inflight[i].step = "received"
        /\ request.type = "UNLOCK"
        /\ event' = [type |-> "UNLOCK", step |-> "settings"]
        /\ IF ~UnlockAccepts(settings, request.pin)
           THEN /\ response' = [success |-> FALSE, error |-> "Invalid PIN"]
                /\ inflight' = Answered(i, response')
           ELSE /\ inflight' = [inflight EXCEPT ![i] =
                                   [request |-> request, step |-> "verified",
                                    autoLockTimer |-> settings.autoLockTimer]]
                /\ UNCHANGED response
        /\ UNCHANGED <<memory, storage, timers, now, manager, errors, backup,
                       runs, migrating,
                   isLocked>>

\* part_000:539-546: the callback of the read of encryptionSalt sets the
\* handler's local `salt`; when decoding throws, the handler never goes on.
UnlockReadsSalt(i) ==
    LET request == inflight[i].request
        salt == PersistedSalt(storage)
    IN  /\ inflight[i].step = "verified"
        /\ event' = [type |-> "UNLOCK", step |-> "salt"]
        /\ inflight' = [inflight EXCEPT ![i] =
                          IF salt.ok
                          THEN [request |-> request, step |-> "salted",
                                autoLockTimer |-> @.autoLockTimer,
                                salt |-> salt.value]
                          ELSE [request |-> request, step |-> "stuck"]]
        /\ UNCHANGED <<memory, storage, timers, now, response, manager, errors,
                       backup, runs, migrating,
                   isLocked>>

\* part_000:548-566: after derivePINKey the handler sets the key and the
\* salt in memory, stores the salt when its read had found none, sets the
\* lock state, arms the timer and answers.  `random` is the salt
\* getRandomValues returned.
UnlockAssigns(i, random) ==
    LET request == inflight[i].request
        salt == inflight[i].salt
        derived == derivePINKey(request.pin, salt, random)
        unlocked == [locked |-> FALSE, lastUnlock |-> now]
        sched == scheduleAutoLock(inflight[i].autoLockTimer, autoLockTimer,
                                  timers, now)
        withSalt ==
            IF salt = NULL
            THEN StorageSet(storage,
                     [encryptionSalt |-> arrayBufferToBase64(derived.newSalt)])
            ELSE storage
    IN  /\ inflight[i].step = "salted"
        /\ CanSchedule(inflight[i].autoLockTimer, autoLockTimer, timers)
        /\ event' = [type |-> "UNLOCK", step |-> "assign"]
        /\ encryptionKey' = derived.key
        /\ encryptionSalt' = derived.newSalt
        /\ lockState' = unlocked
        /\ storage' = StorageSet(withSalt, [lockState |-> unlocked])
        /\ autoLockTimer' = sched.autoLockTimer
        /\ timers' = sched.timers
        /\ response' = [success |-> TRUE]
        /\ inflight' = Answered(i, response')
        /\ UNCHANGED <<now, manager, errors, backup, runs, migrating,
                   isLocked>>

\* The salts getRandomValues may return to a handler: 32 random bytes
\* repeat no salt that is stored or in memory.
FreshSalts ==
    {b \in SaltValues :
        /\ b # encryptionSalt
        /\ ~(PersistedSalt(storage).ok /\ PersistedSalt(storage).value = b)}

ReceiveUnlock ==
    \E pin \in PINS : Receive([type |-> "UNLOCK", pin |-> pin], MaxUnlocks)

UnlockContinues ==
    \E i \in 1..Len(inflight) :
        \E random \in (IF inflight[i].step = "salted" /\ inflight[i].salt = NULL
                        THEN FreshSalts ELSE {NULL}) :
            UnlockAssigns(i, random)

NextUnlockRaces ==
    \/ ReceiveUnlock /\ UNCHANGED observers
    \/ (\E i \in 1..Len(inflight) : UnlockReadsSettings(i))
          /\ UNCHANGED observers
    \/ (\E i \in 1..Len(inflight) : UnlockReadsSalt(i)) /\ UNCHANGED observers
    \/ UnlockContinues /\ UNCHANGED observers

SpecUnlockRaces == Init /\ [][NextUnlockRaces]_vars

\* The requests that rewrite the stored settings.
SettingsRequests ==
    {[type |-> "UPDATE_SETTINGS", settings |-> settings] :
        settings \in SettingsUpdates}
        \cup {[type |-> "SET_PIN", pin |-> pin] : pin \in PINS}

\* part_000:828: handleSetPIN waits for the hash of the PIN before it
\* reads the settings.
SetPINHashes(i) ==
    /\ inflight[i].step = "received"
    /\ inflight[i].request.type = "SET_PIN"
    /\ event' = [type |-> "SET_PIN", step |-> "hash"]
    /\ inflight' = [inflight EXCEPT ![i] =
                      [request |-> @.request, step |-> "hashed",
                       hash |-> PinHashToStore(@.request.pin)]]
    /\ UNCHANGED <<memory, storage, timers, now, response, manager, errors,
                   backup, runs, migrating,
                   isLocked>>

\* part_000:511 and 829: storage serves the handler's read of `settings`;
\* the callback runs later with this result.
SettingsAreRead(i) ==
    /\ \/ inflight[i].step = "received"
          /\ inflight[i].request.type = "UPDATE_SETTINGS"
       \/ inflight[i].step = "hashed"
    /\ event' = [type |-> inflight[i].request.type, step |-> "read"]
    /\ inflight' = [inflight EXCEPT ![i] =
                      Spread(@, [step |-> "read",
                                 current |-> LoadSettings(storage)])]
    /\ UNCHANGED <<memory, storage, timers, now, response, manager, errors,
                   backup, runs, migrating,
                   isLocked>>

\* part_000:512-519: the callback of handleUpdateSettings merges the
\* request into the settings it was given, writes them, answers and arms
\* the timer when the request names autoLockTimer.
UpdateSettingsWrites(i) ==
    LET settings == inflight[i].request.settings
        updated == Spread(inflight[i].current, settings)
        rearm == "autoLockTimer" \in DOMAIN settings
        sched == IF rearm
                 THEN scheduleAutoLock(updated.autoLockTimer, autoLockTimer,
                                       timers, now)
                 ELSE [autoLockTimer |-> autoLockTimer, timers |-> timers]
    IN  /\ inflight[i].step = "read"
        /\ inflight[i].request.type = "UPDATE_SETTINGS"
        /\ rearm => CanSchedule(updated.autoLockTimer, autoLockTimer, timers)
        /\ event' = [type |-> "UPDATE_SETTINGS", step |-> "write"]
        /\ storage' = StorageSet(storage, [settings |-> updated])
        /\ response' = [success |-> TRUE]
        /\ inflight' = Answered(i, response')
        /\ autoLockTimer' = sched.autoLockTimer
        /\ timers' = sched.timers
        /\ UNCHANGED <<encryptionKey, encryptionSalt, lockState, now, manager,
                       errors, backup, runs, migrating,
                   isLocked>>

\* part_000:830-834: the callback of handleSetPIN puts the hash into the
\* settings it was given, writes them and answers.
SetPINWrites(i) ==
    LET settings == Spread(inflight[i].current, [pinHash |-> inflight[i].hash])
    IN  /\ inflight[i].step = "read"
        /\ inflight[i].request.type = "SET_PIN"
        /\ event' = [type |-> "SET_PIN", step |-> "write"]
        /\ storage' = StorageSet(storage, [settings |-> settings])
        /\ response' = [success |-> TRUE]
        /\ inflight' = Answered(i, response')
        /\ UNCHANGED <<memory, timers, now, manager, errors, backup, runs,
                       migrating,
                   isLocked>>

ReceiveSettingsRequest ==
    \E request \in SettingsRequests : Receive(request, MaxInflight)

NextSettingsRaces ==
    \/ ReceiveSettingsRequest /\ UNCHANGED observers
    \/ (\E i \in 1..Len(inflight) : SetPINHashes(i)) /\ UNCHANGED observers
    \/ (\E i \in 1..Len(inflight) : SettingsAreRead(i))
          /\ UNCHANGED observers
    \/ (\E i \in 1..Len(inflight) : UpdateSettingsWrites(i))
          /\ UNCHANGED observers
    \/ (\E i \in 1..Len(inflight) : SetPINWrites(i)) /\ UNCHANGED observers

SpecSettingsRaces == Init /\ [][NextSettingsRaces]_vars

-----------------------------------------------------------------------------
(* The popup (part_002:71) *)

\* part_002:102 sendMessage resolves with what the worker's listener hands
\* to sendResponse; the listener answers every request it refuses.

\* part_002:81-84 init: the popup asks for GET_POPUP_STATE and shows
\* `response?.locked ?? true`.
PopupInit ==
    /\ onMessage([type |-> "GET_POPUP_STATE"])
    /\ isLocked' = OrElse(response', "locked", TRUE)

\* part_002:203-221 unlock(pin)
PopupUnlock ==
    \E pin \in PINS :
        /\ onMessage([type |-> "UNLOCK", pin |-> pin])
        /\ isLocked' = IF OrElse(response', "success", FALSE) THEN FALSE
                        ELSE isLocked

\* part_002:224-233 lock(): once sendMessage has resolved, whatever the
\* answer, the popup shows the locked state.
PopupLock ==
    /\ onMessage([type |-> "LOCK_NOW"])
    /\ isLocked' = TRUE

NextPopup ==
    \/ PopupInit /\ UNCHANGED observers
          /\ UNCHANGED <<manager, errors, backup, runs, migrating, inflight>>
    \/ PopupUnlock /\ UNCHANGED observers
          /\ UNCHANGED <<manager, errors, backup, runs, migrating, inflight>>
    \/ PopupLock /\ UNCHANGED observers
          /\ UNCHANGED <<manager, errors, backup, runs, migrating, inflight>>
    \/ SetPIN /\ UNCHANGED observers /\ UNCHANGED outside
    \/ AutoLockFires /\ UNCHANGED observers /\ UNCHANGED outside
    \/ Tick /\ UNCHANGED observers /\ UNCHANGED outside

SpecPopup == Init /\ [][NextPopup]_vars

-----------------------------------------------------------------------------
(* The worker's own migration (part_000:1119) *)

\* part_000:1152-1168: the note runMigration builds from a legacy entry.
\* Nothing is required of the entry; a property whose value is undefined
\* is absent from the stored note.
RunMigrationNote(oldNote, defaultPosition, defaultSize) ==
    Spread(Pick(oldNote, {"id", "createdAt", "updatedAt"}),
           [title |-> OrElse(oldNote, "title", ""),
            content |-> OrElse(oldNote, "content", ""),
            color |-> normalizeColor(OrElse(oldNote, "color", "")),
            position |-> DEFAULT_POSITIONS[defaultPosition],
            size |-> DEFAULT_SIZES[defaultSize],
            pageURL |-> IF OrElse(oldNote, "url", "") # ""
                        THEN normalizeUrl(oldNote.url) ELSE "",
            masked |-> FALSE,
            _metadata |-> MigratedMetadata(oldNote)])

\* part_000:1171-1173: the template literal writes an id that is
\* undefined as "undefined".
RunMigrationKey(newNote) ==
    NoteKey(newNote.pageURL, OrElse(newNote, "id", "undefined"))

\* part_000:1140-1183: the loop of runMigration from the n-th key of
\* `order` on; it fills `updates` and `toDelete`.
RECURSIVE RunMigrationFrom(_, _, _, _, _)
RunMigrationFrom(store, order, n, defaultPosition, defaultSize) ==
    IF n > Len(order) THEN [updates |-> << >>, toDelete |-> {}]
    ELSE LET key == order[n]
             oldNote == store[key]
             newNote == RunMigrationNote(oldNote, defaultPosition, defaultSize)
             newKey == RunMigrationKey(newNote)
             rest == RunMigrationFrom(store, order, n + 1, defaultPosition,
                                      defaultSize)
         IN  IF AlreadyMigrated(oldNote) THEN rest
             ELSE [updates |-> Spread([k \in {newKey} |-> newNote],
                                      rest.updates),
                   toDelete |-> (IF key # newKey THEN {key} ELSE {})
                                    \cup rest.toDelete]

\* part_000:1119 runMigration.  `order` is the order in which the entries
\* of storage are yielded.
runMigration(order) ==
    LET settings == IF Has(storage, "settings") THEN storage["settings"]
                    ELSE DEFAULT_SETTINGS
        defaultPosition == OrElse(settings, "defaultNotePosition", "top-right")
        defaultSize == OrElse(settings, "defaultNoteSize", "medium")
        built == RunMigrationFrom(storage, order, 1, defaultPosition,
                                  defaultSize)
        saved == StorageRemove(StorageSet(storage, built.updates),
                               built.toDelete)
    IN  /\ event' = [type |-> "runMigration"]
        /\ response' = NULL
        /\ storage' =
              IF Has(storage, "migration_v2_done") /\ storage["migration_v2_done"]
              THEN storage
              ELSE StorageSet(saved, [migration_v2_done |-> TRUE])
        /\ UNCHANGED <<memory, manager, errors, backup, timers, now, migrating,
                       inflight, isLocked>>

RunMigration ==
    /\ runs < MaxRuns
    /\ runs' = runs + 1
    /\ \E order \in Orders(DOMAIN NoteEntries(storage)) : runMigration(order)

\* Either migration, run over a legacy storage.
NextRunMigration ==
    \/ RunMigration /\ UNCHANGED observers
    \/ AutoMigrate /\ UNCHANGED observers

SpecRunMigration == InitMigration /\ [][NextRunMigration]_vars

-----------------------------------------------------------------------------
(* Properties of the lock controller (Spec) *)

LockEvents == {"LOCK", "lock-now", "auto-lock"}

\* The one timeout UNLOCK or UPDATE_SETTINGS leaves pending for duration d
\* set at time t: due at t + d and held by the module's handle; none for 0.
ArmedFor(d, t, handle, pending) ==
    IF d > 0
    THEN handle # 0 /\ pending = {[id |-> handle, fireAt |-> t + d]}
    ELSE handle = 0 /\ pending = {}

\* C4: after LOCK (the LOCK message, the lock-now shortcut or the auto-lock
\* timeout) the key is null, no timeout is pending and lockState is
\* {locked: true, lastUnlock: 0} in memory and in storage; and a LOCK
\* message or shortcut received when the state is already LOCKED changes
\* nothing in memory, in storage or among the pending timeouts.
C4_LockIsIdempotent ==
    [][event'.type \in LockEvents =>
          /\ encryptionKey' = NULL
          /\ autoLockTimer' = 0
          /\ timers' = {}
          /\ lockState' = LockedState
          /\ storage'["lockState"] = LockedState
          /\ (/\ event'.type \in {"LOCK", "lock-now"}
              /\ encryptionKey = NULL
              /\ lockState = LockedState
              /\ storage["lockState"] = LockedState)
                => UNCHANGED <<memory, storage, timers>>]_vars

\* C5: with a pinHash stored, UNLOCK with a PIN of another hash is answered
\* {success: false, error: 'Invalid PIN'} and leaves key, salt, lock state
\* (memory and storage) and the auto-lock timeout as they were; with no
\* pinHash stored, UNLOCK with any PIN succeeds and ends UNLOCKED with
\* lastUnlock = now.
C5_UnlockChecksPin ==
    [][event'.type = "UNLOCK" =>
          LET settings == LoadSettings(storage)
          IN  /\ (HasPinHash(settings) /\ hashData(event'.pin) # settings.pinHash)
                    => /\ response' = [success |-> FALSE, error |-> "Invalid PIN"]
                       /\ UNCHANGED <<encryptionKey, encryptionSalt, lockState,
                                      autoLockTimer, timers, storage>>
              /\ ~HasPinHash(settings)
                    => /\ response' = [success |-> TRUE]
                       /\ encryptionKey' # NULL
                       /\ lockState' = [locked |-> FALSE, lastUnlock |-> now]
                       /\ storage'["lockState"] = lockState']_vars

\* A wrong PIN was refused while a key was held and a timeout pending.
C5_Witness ==
    /\ event.type = "UNLOCK"
    /\ response = [success |-> FALSE, error |-> "Invalid PIN"]
    /\ encryptionKey # NULL
    /\ encryptionKey.pin # event.pin
    /\ autoLockTimer # 0

C8_UpdateRearmsFromNow ==
    [][(/\ event'.type = "UPDATE_SETTINGS"
        /\ "autoLockTimer" \in DOMAIN event'.settings
        /\ encryptionKey # NULL) =>
          ArmedFor(event'.settings.autoLockTimer, now,
                   autoLockTimer', timers')]_vars

\* An update some time after the unlock re-armed the timeout: it is due d'
\* after the update, which is later than d' after the unlock.
C8_Witness ==
    /\ event.type = "UPDATE_SETTINGS"
    /\ "autoLockTimer" \in DOMAIN event.settings
    /\ event.settings.autoLockTimer > 0
    /\ encryptionKey # NULL
    /\ lockState.lastUnlock < now
    /\ timers = {[id |-> autoLockTimer,
                  fireAt |-> now + event.settings.autoLockTimer]}

-----------------------------------------------------------------------------
(* Properties of the PIN check under repeated failures (SpecLockout) *)

\* C6: after MAX_ATTEMPTS consecutive failed UNLOCKs, an UNLOCK received
\* less than LOCKOUT_DURATION after the latest failure is rejected, the
\* correct PIN included.
C6_LockoutAfterFiveFailures ==
    [][(/\ event'.type = "UNLOCK"
        /\ attempts.count >= MAX_ATTEMPTS
        /\ now - attempts.last < LOCKOUT_DURATION) =>
          ~response'.success]_vars

-----------------------------------------------------------------------------
(* Properties of the record store (SpecNotes) *)

\* The storage key a CREATE_NOTE or UPDATE_NOTE request addresses.
RequestKey(request) == NoteKey(OrElse(request.note, "pageURL", ""), request.note.id)

\* C1: GET_NOTE of an encrypted record, after a LOCK and an UNLOCK with the
\* PIN the key was derived from before, returns the plaintext title and
\* content it returned before the LOCK.
C1_LockCycleDecryptsIdentically ==
    (/\ event.type = "GET_NOTE"
     /\ seen # NULL
     /\ seen.relocked
     /\ event.id = seen.id
     /\ event.pageURL = seen.pageURL
     /\ encryptionKey # NULL
     /\ encryptionKey.pin = seen.pin) =>
        /\ response.success
        /\ response.note.title = seen.title
        /\ response.note.content = seen.content

\* A record read before a LOCK was read again after the LOCK and an UNLOCK
\* with the same PIN.
C1_Witness ==
    /\ event.type = "GET_NOTE"
    /\ seen # NULL
    /\ seen.relocked
    /\ encryptionKey # NULL
    /\ encryptionKey.pin = seen.pin
    /\ response.success
    /\ response.note._metadata.encrypted
    /\ response.note.title = seen.title

\* C2: a record written by CREATE_NOTE or UPDATE_NOTE while
\* settings.encryptionEnabled is true holds neither its title nor its
\* content as the plaintext of the request, key held or not.
C2_NoPlaintextWhenEnabled ==
    [][(/\ event'.type \in {"CREATE_NOTE", "UPDATE_NOTE"}
        /\ response'.success
        /\ LoadSettings(storage).encryptionEnabled) =>
          /\ storage'[RequestKey(event')].title # event'.note.title
          /\ storage'[RequestKey(event')].content # event'.note.content]_vars

\* The strings chrome.storage.local holds outside the records' own text:
\* the salt entry, the settings' string fields, and every envelope's fields.
PersistedStrings(store) ==
    (IF Has(store, "encryptionSalt") THEN {store["encryptionSalt"]} ELSE {})
        \cup {store["settings"][f] :
                f \in DOMAIN store["settings"]
                        \cap {"securityLevel", "pinHash", "defaultNotePosition",
                              "defaultNoteSize"}}
        \cup UNION {{n.id, n.title, n.content, n.color, n.pageURL}
                        \cup UNION {{e.ciphertext, e.iv, e.salt} : e \in EnvelopesOf(n)} :
                    n \in StoredNotes(store)}

\* C3: storage holds neither the PIN nor the derived key: its entries are
\* the settings, lockState, the migration flag, the salt and the records;
\* none of their fields is a key; no string among them is a PIN; and what
\* is kept of the PIN is settings.pinHash, a hash, beside the KDF salt.
C3_NoKeyOrPinPersisted ==
    /\ DOMAIN storage \subseteq
          {"settings", "lockState", "migration_v2_done", "encryptionSalt"}
              \cup NoteKeys
    /\ DOMAIN storage["settings"] \subseteq DOMAIN DEFAULT_SETTINGS \cup {"pinHash"}
    /\ DOMAIN storage["lockState"] = {"locked", "lastUnlock"}
    /\ \A n \in StoredNotes(storage) :
          /\ DOMAIN n = {"id", "createdAt", "updatedAt", "title", "content",
                         "color", "position", "size", "pageURL", "masked",
                         "_metadata"}
          /\ DOMAIN n._metadata = {"encrypted", "contentEncryptionMetadata",
                                   "titleEncryptionMetadata"}
          /\ \A e \in EnvelopesOf(n) : DOMAIN e = {"ciphertext", "iv", "salt"}
    /\ PersistedStrings(storage) \cap PINS = {}
    /\ HasPinHash(storage["settings"]) =>
          storage["settings"].pinHash \in {hashData(pin) : pin \in PINS}
    /\ Has(storage, "encryptionSalt") =>
          storage["encryptionSalt"] \in {arrayBufferToBase64(b) : b \in SaltValues}

\* A PIN is set, a key derived from it is held, and a record encrypted
\* under that key is stored.
C3_Witness ==
    /\ encryptionKey # NULL
    /\ HasPinHash(LoadSettings(storage))
    /\ hashData(encryptionKey.pin) = storage["settings"].pinHash
    /\ Has(storage, "encryptionSalt")
    /\ \E n \in StoredNotes(storage) :
          /\ n._metadata.encrypted
          /\ n._metadata.contentEncryptionMetadata # NULL
          /\ decryptAESGCM(n._metadata.contentEncryptionMetadata, encryptionKey).ok

\* C9: CREATE_NOTE stores title and content as two envelopes with distinct
\* nonces and encrypted = true exactly when a key is held and
\* settings.encryptionEnabled is true; otherwise it stores the request's
\* title and content with encrypted = false and no envelopes.
C9_CreateEncryptsIffEnabledAndUnlocked ==
    [][event'.type = "CREATE_NOTE" =>
          LET stored == storage'[RequestKey(event')]
              m == stored._metadata
          IN  IF encryptionKey # NULL /\ LoadSettings(storage).encryptionEnabled
              THEN /\ m.encrypted
                   /\ m.contentEncryptionMetadata # NULL
                   /\ m.titleEncryptionMetadata # NULL
                   /\ m.contentEncryptionMetadata.iv # m.titleEncryptionMetadata.iv
                   /\ stored.content = m.contentEncryptionMetadata.ciphertext
                   /\ stored.title = m.titleEncryptionMetadata.ciphertext
              ELSE /\ ~m.encrypted
                   /\ m.contentEncryptionMetadata = NULL
                   /\ m.titleEncryptionMetadata = NULL
                   /\ stored.content = event'.note.content
                   /\ stored.title = event'.note.title]_vars

\* C10: GET_NOTE of a record with encrypted = true while a key is held
\* answers either the record with each enveloped field replaced by its
\* plaintext, or {success: false} with a decryption error and no record.
C10_NeverHalfDecrypted ==
    (/\ event.type = "GET_NOTE"
     /\ encryptionKey # NULL
     /\ Has(storage, NoteKey(event.pageURL, event.id))
     /\ storage[NoteKey(event.pageURL, event.id)]._metadata.encrypted) =>
        LET m == storage[NoteKey(event.pageURL, event.id)]._metadata
            c == decryptAESGCM(m.contentEncryptionMetadata, encryptionKey)
            t == decryptAESGCM(m.titleEncryptionMetadata, encryptionKey)
        IN  IF response.success
            THEN /\ m.contentEncryptionMetadata # NULL =>
                        c.ok /\ response.note.content = c.plaintext
                 /\ m.titleEncryptionMetadata # NULL =>
                        t.ok /\ response.note.title = t.plaintext
            ELSE /\ DOMAIN response = {"success", "error"}
                 /\ ~(c.ok /\ t.ok)

\* GET_NOTE was refused for a record whose content decrypts under the held
\* key and whose title does not.
C10_Witness ==
    /\ event.type = "GET_NOTE"
    /\ encryptionKey # NULL
    /\ Has(storage, NoteKey(event.pageURL, event.id))
    /\ ~response.success
    /\ LET m == storage[NoteKey(event.pageURL, event.id)]._metadata
       IN  /\ m.encrypted
           /\ decryptAESGCM(m.contentEncryptionMetadata, encryptionKey).ok
           /\ ~decryptAESGCM(m.titleEncryptionMetadata, encryptionKey).ok

\* C12: UPDATE_NOTE received while no key is held, for a record stored
\* with encrypted = true, leaves the record's title and content ciphertext,
\* its envelopes and its encrypted flag as they were.
C12_LockedUpdateKeepsCiphertext ==
    [][(/\ event'.type = "UPDATE_NOTE"
        /\ encryptionKey = NULL
        /\ Has(storage, RequestKey(event'))
        /\ storage[RequestKey(event')]._metadata.encrypted) =>
          LET old == storage[RequestKey(event')]
              new == storage'[RequestKey(event')]
          IN  /\ new.title = old.title
              /\ new.content = old.content
              /\ new._metadata = old._metadata]_vars

-----------------------------------------------------------------------------
(* Properties of the listing (SpecListing) *)

\* Whether every envelope of a stored record decrypts under the key.
Decrypts(note, key) ==
    \A e \in EnvelopesOf(note) : decryptAESGCM(e, key).ok

\* The stored record with each enveloped field replaced by its plaintext.
Plain(note, key) ==
    LET m == note._metadata
    IN  [note EXCEPT
           !.content = IF m.contentEncryptionMetadata # NULL
                       THEN decryptAESGCM(m.contentEncryptionMetadata, key).plaintext
                       ELSE @,
           !.title = IF m.titleEncryptionMetadata # NULL
                     THEN decryptAESGCM(m.titleEncryptionMetadata, key).plaintext
                     ELSE @]

\* C11: GET_ALL_NOTES answers {success: true} with exactly the records
\* under the prefix note: that pass the scope filter and, when a key is
\* held and the record is encrypted, decrypt; each of those decrypted, the
\* others as stored; a record that fails to decrypt is left out and the
\* rest is still returned.
C11_ListingSkipsUndecryptable ==
    event.type = "GET_ALL_NOTES" =>
        LET mustDecrypt(k) == storage[k]._metadata.encrypted /\ encryptionKey # NULL
            listed == {k \in DOMAIN storage :
                         /\ IsNoteKey(k)
                         /\ (event.pageURL = "" \/ storage[k].pageURL = event.pageURL)
                         /\ mustDecrypt(k) => Decrypts(storage[k], encryptionKey)}
        IN  /\ response.success
            /\ DOMAIN response.notes = listed
            /\ \A k \in listed :
                  response.notes[k] = IF mustDecrypt(k)
                                      THEN Plain(storage[k], encryptionKey)
                                      ELSE storage[k]

\* An unfiltered listing under a key left out one record that does not
\* decrypt and returned another decrypted.
C11_Witness ==
    /\ event.type = "GET_ALL_NOTES"
    /\ event.pageURL = ""
    /\ encryptionKey # NULL
    /\ \E k \in DOMAIN storage :
          /\ IsNoteKey(k)
          /\ storage[k]._metadata.encrypted
          /\ ~Decrypts(storage[k], encryptionKey)
          /\ k \notin DOMAIN response.notes
    /\ \E k \in DOMAIN response.notes :
          /\ storage[k]._metadata.encrypted
          /\ response.notes[k].content = "T2"
          /\ storage[k].content # "T2"

\* C13: GET_ALL_NOTES with a non-empty scope filter f returns only records
\* whose stored pageURL equals f; records of another scope are left out.
C13_FilteredListingIsScoped ==
    (event.type = "GET_ALL_NOTES" /\ event.pageURL # "") =>
        \A k \in DOMAIN response.notes :
            /\ storage[k].pageURL = event.pageURL
            /\ response.notes[k].pageURL = event.pageURL

\* A filtered listing returned a record of its scope while a record of the
\* other scope was stored.
C13_Witness ==
    /\ event.type = "GET_ALL_NOTES"
    /\ event.pageURL = "https://a.com/p"
    /\ response.notes # << >>
    /\ \E k \in DOMAIN response.notes : storage[k].pageURL = "https://a.com/p"
    /\ \E k \in DOMAIN storage :
          /\ IsNoteKey(k)
          /\ storage[k].pageURL = "https://b.com/p"
          /\ k \notin DOMAIN response.notes

-----------------------------------------------------------------------------
(* Properties of the import of files (SpecImport) *)

\* An element of the file's array that is a record with an id.
WellFormed(note) == note # NULL /\ "id" \in DOMAIN note

\* C16: IMPORT_NOTES writes every well-formed record of the input under the
\* key CREATE_NOTE would use; a malformed record is counted as failed and
\* does not keep the other records from being written; the reported count
\* is the number of records written; the whole import fails only for a text
\* that is not JSON or a top-level value without the array notes, and then
\* storage is unchanged.
C16_ImportIsolatesBadRecords ==
    [][(event'.type = "IMPORT_NOTES" /\ "data" \in DOMAIN event') =>
          LET parsed == JSONparse(event'.data)
              valid == /\ parsed.ok
                       /\ parsed.value # NULL
                       /\ "notes" \in DOMAIN parsed.value
              notes == parsed.value.notes
              good == {n \in 1..Len(notes) : WellFormed(notes[n])}
              keyOf(n) == NoteKey(OrElse(notes[n], "pageURL", ""), notes[n].id)
          IN  /\ ~response'.success => (~valid /\ storage' = storage)
              /\ valid =>
                    /\ response'.success
                    /\ response'.count = Cardinality({keyOf(n) : n \in good})
                    /\ \A n \in good :
                          /\ Has(storage', keyOf(n))
                          /\ \E m \in good : storage'[keyOf(n)] = notes[m]
                    /\ \A k \in DOMAIN storage' :
                          k \notin {keyOf(n) : n \in good}
                              => Has(storage, k) /\ storage'[k] = storage[k]]_vars

-----------------------------------------------------------------------------
(* Properties of backup and restore (SpecBackup, SpecManager) *)

\* The records of an export text, as a set, and their number.
ExportedRecords(data) ==
    {data.value.notes[n] : n \in 1..Len(data.value.notes)}

\* C14: the records in an export, of EXPORT_NOTES and of
\* StorageManager.exportNotes, are the stored records exactly as stored,
\* whether or not a key is held: no export holds a decrypted field.
C14_ExportNeverDecrypts ==
    /\ event.type = "EXPORT_NOTES" =>
          /\ ExportedRecords(response.data) = StoredNotes(storage)
          /\ Len(response.data.value.notes)
                = Cardinality(DOMAIN NoteEntries(storage))
    /\ event.type = "exportNotes" =>
          /\ ExportedRecords(response.returned) = StoredNotes(storage)
          /\ Len(response.returned.value.notes)
                = Cardinality(DOMAIN NoteEntries(storage))

\* C15: importing the user's export into storage that holds no record (as
\* after a clear) restores the record entries storage held at the export,
\* keys and values; importing it into storage that still holds exactly
\* those entries changes nothing.
C15_ExportImportRoundTrip ==
    [][(/\ event'.type \in {"IMPORT_NOTES", "importNotes"}
        /\ backup # NULL
        /\ "data" \in DOMAIN event'
        /\ event'.data = backup.data) =>
          /\ DOMAIN NoteEntries(storage) = {}
                => NoteEntries(storage') = backup.snapshot
          /\ NoteEntries(storage) = backup.snapshot
                => storage' = storage]_vars

\* C17: after CLEAR_NOTES or StorageManager.clearAllNotes no key with the
\* prefix note: is left, whatever the lock state and whether or not the
\* records decrypt; every other key of storage is as it was; CLEAR_NOTES
\* reports the number of keys it removed.
C17_ClearRemovesEveryRecord ==
    [][event'.type \in {"CLEAR_NOTES", "clearAllNotes"} =>
          /\ DOMAIN NoteEntries(storage') = {}
          /\ \A k \in DOMAIN storage :
                ~IsNoteKey(k) => Has(storage', k) /\ storage'[k] = storage[k]
          /\ event'.type = "CLEAR_NOTES" =>
                response'.cleared = Cardinality(DOMAIN NoteEntries(storage))]_vars

-----------------------------------------------------------------------------
(* Properties of the migration (SpecMigration) *)

MigrationFlagSet(store) ==
    Has(store, "migration_v2_done") /\ store["migration_v2_done"]

\* The keys of the entries a run has to migrate, and of those among them
\* that lack a required field.
Pending(store) ==
    {k \in DOMAIN NoteEntries(store) : ~AlreadyMigrated(store[k])}

Unmigratable(store) == {k \in Pending(store) : ~Migratable(store[k])}

\* The key under which the migrated form of a legacy entry belongs.
NewKeyOf(oldNote) ==
    NoteKey(IF OrElse(oldNote, "url", "") # "" THEN normalizeUrl(oldNote.url)
            ELSE "",
            oldNote.id)

\* C18: a run of autoMigrate that follows a completed run leaves every
\* entry of storage other than the completion flag as it is, the migrated
\* entries (with a pageURL or with pageURL null) included, whether the
\* first run set the flag or not; with the flag set it changes nothing.
C18_MigrationIsIdempotent ==
    [][(event'.type = "autoMigrate" /\ runs >= 1) =>
          /\ \A k \in (DOMAIN storage \cup DOMAIN storage') \ {"migration_v2_done"} :
                /\ Has(storage, k) /\ Has(storage', k)
                /\ storage'[k] = storage[k]
          /\ MigrationFlagSet(storage) => storage' = storage]_vars

\* A second run went over a storage without the flag that held a migrated
\* page note, a migrated personal note (pageURL null) and an entry that
\* cannot be migrated.
C18_Witness ==
    /\ event.type = "autoMigrate"
    /\ runs = 2
    /\ ~MigrationFlagSet(storage)
    /\ \E k \in DOMAIN NoteEntries(storage) :
          AlreadyMigrated(storage[k]) /\ storage[k].pageURL = ""
    /\ \E k \in DOMAIN NoteEntries(storage) :
          AlreadyMigrated(storage[k]) /\ storage[k].pageURL = "https://a.com/p"
    /\ Unmigratable(storage) # {}

\* C19: a run of autoMigrate loses no record: every legacy entry with the
\* required fields is, after the run, under its new key as a record with
\* that entry's id, title and content, and storage holds as many records
\* with the required fields as before.
C19_MigrationLosesNoRecord ==
    [][(event'.type = "autoMigrate" /\ ~MigrationFlagSet(storage)) =>
          /\ \A k \in Pending(storage) \ Unmigratable(storage) :
                LET newKey == NewKeyOf(storage[k])
                IN  /\ Has(storage', newKey)
                    /\ storage'[newKey].id = storage[k].id
                    /\ storage'[newKey].title = storage[k].title
                    /\ storage'[newKey].content = storage[k].content
          /\ Cardinality({k \in DOMAIN NoteEntries(storage') :
                            Migratable(storage'[k])})
                = Cardinality({k \in DOMAIN NoteEntries(storage) :
                                 Migratable(storage[k])})]_vars

\* C20: in a run of autoMigrate every entry without id, createdAt or
\* updatedAt is logged once with its raw data and stays in storage as it
\* was; every other entry that is not skipped is migrated; migrated +
\* failed is the number of entries not skipped, failed is the number of
\* logged errors, and the run goes on to the completion flag.
C20_FailuresAreIsolated ==
    [][(event'.type = "autoMigrate" /\ ~MigrationFlagSet(storage)) =>
          /\ \A k \in Unmigratable(storage) :
                /\ Cardinality({n \in 1..Len(errors') :
                                  errors'[n].originalData = storage[k]}) = 1
                /\ Has(storage', k)
                /\ storage'[k] = storage[k]
          /\ Len(errors') = Cardinality(Unmigratable(storage))
          /\ response'.failed = Len(errors')
          /\ response'.migrated + response'.failed
                = Cardinality(Pending(storage))
          /\ \A k \in Pending(storage) \ Unmigratable(storage) :
                /\ Has(storage', NewKeyOf(storage[k]))
                /\ AlreadyMigrated(storage'[NewKeyOf(storage[k])])
          /\ response'.resolved => MigrationFlagSet(storage')]_vars


\* C21: migrateNote, on a legacy entry that has id, createdAt and updatedAt,
\* returns a note with these three copied; title and content copied, or
\* empty when absent; the colour in upper-case #RRGGBB form (a six-digit
\* colour as written, a three-digit one with each digit doubled, one of
\* the six colour names by the table, anything else #FFF9E6); position and
\* size from the tables of the given defaults; pageURL the scheme, host and
\* path of the legacy url without query, fragment and default port, the
\* url as it is when it does not parse, none when there is no url; and
\* masked false.  The entry n1 of the example gives exactly its note.
UpperHexDigits ==
    {"0", "1", "2", "3", "4", "5", "6", "7", "8", "9",
     "A", "B", "C", "D", "E", "F"}

ExpectedColor(color) ==
    LET c == Chars(color)
        upper(ch) == toUpperCase(<<ch>>)[1]
        name == Join(toLowerCase(c))
    IN  IF IsHexColor(c, 6) THEN Join([i \in 1..7 |-> upper(c[i])])
        ELSE IF IsHexColor(c, 3)
        THEN Join([i \in 1..7 |-> IF i = 1 THEN "#"
                                   ELSE upper(c[(i \div 2) + 1])])
        ELSE CASE name = "yellow" -> "#FFF9E6"
               [] name = "blue" -> "#E3F2FD"
               [] name = "green" -> "#E8F5E9"
               [] name = "pink" -> "#FCE4EC"
               [] name = "purple" -> "#F3E5F5"
               [] name = "orange" -> "#FFF3E0"
               [] OTHER -> "#FFF9E6"

ExpectedPageURL(url) ==
    IF url = "" THEN ""
    ELSE IF \E u \in URLParts : Href(u) = url
    THEN LET u == CHOOSE u \in URLParts : Href(u) = url
         IN  u.protocol \o "//" \o u.hostname
                \o (IF u.port \in {"", DefaultPort[u.protocol]} THEN ""
                    ELSE ":" \o u.port)
                \o u.pathname
    ELSE url

LegacyKey == derivePINKey("1111", Bytes(1), Bytes(1)).key

C23_UnlistedMessageIsRefused ==
    [][event'.type \notin ALLOWED_MESSAGES =>
          /\ response' = [success |-> FALSE,
                          error |-> "Unauthorized message type"]
          /\ UNCHANGED <<encryptionKey, encryptionSalt, lockState,
                         autoLockTimer, timers, storage>>]_vars

\* While unlocked, with the auto-lock timer armed and a note stored, a
\* request of type "lock" was refused.
C23_Witness ==
    /\ event.type = "lock"
    /\ response # NULL
    /\ ~response.success
    /\ encryptionKey # NULL
    /\ autoLockTimer # 0
    /\ Has(storage, "note:n1")

\* C24: every message the worker receives is answered, with a response
\* that has a boolean success; a failing crypto operation, a malformed
\* stored value or a storage error gives {success: false, error}.
C24_EveryMessageIsAnswered ==
    event.type # "INSTALLED" =>
        /\ response # NULL
        /\ "success" \in DOMAIN response
        /\ response.success \in BOOLEAN
        /\ ~response.success => "error" \in DOMAIN response


C26_DecryptFailsClosed ==
    (event.type = "decrypt" /\ runs = 1) =>
        /\ "success" \in DOMAIN response
        /\ IF event.tamper = "none" /\ event.key = event.encryptedUnder
           THEN response = [plaintext |-> event.plaintext, success |-> TRUE]
           ELSE /\ ~response.success
                /\ response.plaintext = ""
                /\ DOMAIN response = {"plaintext", "success", "error"}
                /\ response.error # ""

\* decrypt was given an envelope with an altered ciphertext and the key
\* the envelope was made under.
C26_Witness ==
    /\ event.type = "decrypt"
    /\ runs = 1
    /\ event.tamper = "ciphertext"
    /\ event.key = event.encryptedUnder
    /\ ~response.success

\* C27: derivePINKey fails and yields no key when the PIN is empty or the
\* salt it is given is not 32 bytes long; otherwise it returns a key, with
\* the salt it was given or, when none was given, a fresh 32-byte salt.
C27_DerivePINKeyValidatesInput ==
    (event.type = "derivePINKey" /\ runs = 1) =>
        IF event.pin = "" \/ event.salt = ShortSalt
        THEN "key" \notin DOMAIN response
        ELSE /\ "key" \in DOMAIN response
             /\ response.salt = IF event.salt = NULL THEN event.random
                                ELSE event.salt
             /\ response.salt \in SaltValues


\* C28: isValidPIN returns {valid, errors} for every input; valid is true
\* exactly when the PIN is a string of 4 to 8 decimal digits; errors holds
\* one entry for each violated rule (too short, too long, a character that
\* is not a digit), all violations together, and is empty exactly when the
\* PIN is valid.
C28_IsValidPINReportsEveryViolation ==
    (event.type = "isValidPIN" /\ runs = 1) =>
        /\ {"valid", "errors"} \subseteq DOMAIN response
        /\ LET pin == event.pin
               isString == pin # NULL /\ pin.kind = "string"
               count(message) ==
                   Cardinality({k \in 1..Len(response.errors) :
                                    response.errors[k] = message})
           IN  /\ response.valid <=>
                     /\ isString
                     /\ Len(pin.chars) \in 4..8
                     /\ \A k \in 1..Len(pin.chars) : pin.chars[k] \in Digits
               /\ response.valid <=> response.errors = << >>
               /\ (isString /\ Len(pin.chars) < 4) =>
                     count("PIN must be at least 4 digits") = 1
               /\ (isString /\ Len(pin.chars) > 8) =>
                     count("PIN must be at most 8 digits") = 1
               /\ (isString /\ \E k \in 1..Len(pin.chars) :
                                    pin.chars[k] \notin Digits) =>
                     count("PIN must contain only digits") = 1

\* C29: isLockedOut is true exactly when attemptCount >= 5 and less than
\* 900000 ms have passed since lastAttempt; getLockoutRemainingTime is the
\* least whole number of seconds that covers what is left of the 900000 ms,
\* and is positive exactly when less than 900000 ms have passed.
C29_LockoutWindow ==
    /\ (event.type = "isLockedOut" /\ runs = 1) =>
          (response.returned <=>
              (event.attemptCount >= 5 /\ now - event.lastAttempt < 900000))
    /\ (event.type = "getLockoutRemainingTime" /\ runs = 1) =>
          LET left == 900000 - (now - event.lastAttempt)
              seconds == response.returned
          IN  /\ seconds * 1000 >= left
              /\ (seconds - 1) * 1000 < left
              /\ (seconds > 0) <=> (now - event.lastAttempt < 900000)

\* isLockedOut was asked exactly 900000 ms after the fifth failure and
\* answered that the lockout is over.
C29_Witness ==
    /\ event.type = "isLockedOut"
    /\ runs = 1
    /\ event.attemptCount = 5
    /\ now - event.lastAttempt = 900000
    /\ ~response.returned


\* The legacy entries that pass migrateNote's validation, each with its old
\* key, its new key and its migrated form.
Validated(legacy) ==
    LET order == CHOOSE o \in Orders(DOMAIN NoteEntries(legacy)) : TRUE
        result == migrateAllNotes(legacy, order, "top-right", "medium", now)
    IN  {result.migrated[n] : n \in 1..Len(result.migrated)}

DataPresent(store, legacy) ==
    \A m \in Validated(legacy) :
        \/ Has(store, m.oldKey) /\ store[m.oldKey] = legacy[m.oldKey]
        \/ /\ Has(store, m.newKey)
           /\ store[m.newKey] = Spread(m.note, [_metadata |-> m.metadata])

\* The storage an uninterrupted run of autoMigrate leaves.
Uninterrupted(legacy, order) ==
    LET result == migrateAllNotes(legacy, order, "top-right", "medium", now)
    IN  StorageSet(
            StorageRemove(
                StorageSet(legacy, MigrationUpdates(result.migrated)),
                MigrationDeletes(result.migrated)),
            [migration_v2_done |-> TRUE])

\* What a step of the migration must keep: the data of every validated
\* entry present, old keys removed only after the bulk write, the flag set
\* only after both and over the storage an uninterrupted run leaves.
MigrationStepIsSafe ==
    /\ DataPresent(storage', seen.legacy)
    /\ (DOMAIN storage \ DOMAIN storage' # {}) =>
          /\ migrating # NULL
          /\ \A k \in DOMAIN migrating.updates :
                Has(storage, k) /\ storage[k] = migrating.updates[k]
    /\ (MigrationFlagSet(storage') /\ ~MigrationFlagSet(storage)) =>
          /\ migrating # NULL
          /\ \A k \in DOMAIN migrating.updates :
                Has(storage, k) /\ storage[k] = migrating.updates[k]
          /\ \A k \in migrating.toDelete : ~Has(storage, k)
          /\ \E order \in Orders(DOMAIN NoteEntries(seen.legacy)) :
                storage' = Uninterrupted(seen.legacy, order)

\* C30: autoMigrate removes an old key only when every migrated entry has
\* been written, and sets migration_v2_done only when the entries are
\* written and the old keys removed; after every step, the worker stopped
\* or not, the data of every legacy entry that passed validation is in
\* storage under its old key or, migrated, under its new key; and the run
\* that sets the flag, after whatever stops, leaves the storage an
\* uninterrupted run leaves.
C30_MigrationSurvivesAStop == [][MigrationStepIsSafe]_vars

\* The storage a note mutation leaves when nothing else runs while it is
\* served.
Served(store, request) ==
    LET noteKey == MutationKey(request)
    IN  CASE request.type = "DELETE_NOTE" -> StorageRemove(store, {noteKey})
          [] request.type = "CREATE_NOTE" ->
                StorageSet(store,
                    [k \in {noteKey} |->
                        StoredNote(request.note, encryptionKey, encryptionSalt,
                                   LoadSettings(store), UsedIvs(store), now)])
          [] request.type = "UPDATE_NOTE" ->
                IF ~Has(store, noteKey) THEN store
                ELSE StorageSet(store,
                        [k \in {noteKey} |->
                            UpdatedNote(store[noteKey], request.note,
                                        encryptionKey, encryptionSalt,
                                        LoadSettings(store), UsedIvs(store),
                                        now)])

\* C31: when an UPDATE_NOTE and another mutation of the same key have both
\* been answered, storage is what serving the two one after the other, in
\* one of the two orders, leaves.
C31_UpdateIsAtomicPerKey ==
    (/\ AllAnswered
     /\ \E i \in 1..Len(inflight) : inflight[i].request.type = "UPDATE_NOTE") =>
        LET a == inflight[1].request
            b == inflight[2].request
        IN  \/ storage = Served(Served(seen.before, a), b)
            \/ storage = Served(Served(seen.before, b), a)


\* C32: after every CREATE_NOTE and UPDATE_NOTE each stored record has
\* updatedAt >= createdAt, and an UPDATE_NOTE leaves the id and the
\* createdAt of every record as they were.
C32_TimestampsAreOrdered ==
    [][/\ \A k \in DOMAIN NoteEntries(storage') :
             storage'[k].updatedAt >= storage'[k].createdAt
       /\ event'.type = "UPDATE_NOTE" =>
             \A k \in DOMAIN NoteEntries(storage) :
                 /\ Has(storage', k)
                 /\ storage'[k].id = storage[k].id
                 /\ storage'[k].createdAt = storage[k].createdAt]_vars


\* C33: every stored record has a pageURL that is null or in normalised
\* form (normalising it changes nothing) and sits under the key made of its
\* pageURL and id, so that the normalised address and the id lead to it.
C33_RecordsAreKeyedByNormalizedURL ==
    \A k \in DOMAIN NoteEntries(storage) :
        LET note == storage[k]
        IN  /\ note.pageURL = "" \/ normalizeUrl(note.pageURL) = note.pageURL
            /\ k = NoteKey(note.pageURL, note.id)
            /\ k = NoteKey(normalizeUrl(note.pageURL), note.id)


\* C34: when GET_LOCK_STATE answers locked = false, the worker holds a key.
C34_UnlockedAnswerMeansKeyHeld ==
    (event.type = "GET_LOCK_STATE" /\ ~response.locked) => encryptionKey # NULL


\* C35: an auto-lock timer is armed only while a key is held, and at most
\* one timeout is pending.
C35_TimerOnlyWhileUnlocked ==
    /\ autoLockTimer # 0 => encryptionKey # NULL
    /\ Cardinality(timers) <= 1


\* C36: whenever a key is held, it was derived from the salt that is
\* persisted under encryptionSalt, and the salt in memory is that salt.
C36_KeyMatchesPersistedSalt ==
    encryptionKey # NULL =>
        /\ PersistedSalt(storage).ok
        /\ PersistedSalt(storage).value = encryptionKey.salt
        /\ encryptionSalt = encryptionKey.salt


\* C37: while the worker is locked and a pinHash is stored, no message
\* changes or removes the stored pinHash.
C37_LockedPinHashIsKept ==
    [][(/\ lockState.locked
        /\ encryptionKey = NULL
        /\ HasPinHash(LoadSettings(storage)))
       => (/\ HasPinHash(LoadSettings(storage'))
           /\ LoadSettings(storage').pinHash = LoadSettings(storage).pinHash)]_vars


\* The fields of the stored settings a request sets, with their values.
Acknowledged(request) ==
    IF request.type = "SET_PIN"
    THEN [pinHash |-> PinHashToStore(request.pin)]
    ELSE request.settings

\* C38: once a SET_PIN and an UPDATE_SETTINGS, or two UPDATE_SETTINGS on
\* different fields, have both been acknowledged, the stored settings hold
\* every field either of them set, and every default key.
C38_NoSettingsChangeIsLost ==
    (/\ AllAnswered
     /\ \A i \in 1..Len(inflight) :
            inflight[i].request.type \in {"SET_PIN", "UPDATE_SETTINGS"}
     /\ DOMAIN Acknowledged(inflight[1].request)
            \cap DOMAIN Acknowledged(inflight[2].request) = {}) =>
        /\ Has(storage, "settings")
        /\ DOMAIN DEFAULT_SETTINGS \subseteq DOMAIN storage.settings
        /\ \A i \in 1..Len(inflight) :
              LET set == Acknowledged(inflight[i].request)
              IN  \A f \in DOMAIN set :
                     /\ f \in DOMAIN storage.settings
                     /\ storage.settings[f] = set[f]


\* C39: when the popup's lock() has resolved and the popup shows the locked
\* state, the worker holds no key and its lock state is LOCKED.
C39_PopupLockLocksTheWorker ==
    (event.type = "LOCK_NOW" /\ isLocked) =>
        /\ encryptionKey = NULL
        /\ lockState.locked


\* The storage autoMigrate leaves when it runs over `store` and every
\* write goes through (migration.ts:294-341).
AutoMigrated(store, order, t) ==
    LET settings == IF Has(store, "settings") THEN store["settings"] ELSE << >>
        result == migrateAllNotes(store, order,
                      OrElse(settings, "defaultNotePosition", "top-right"),
                      OrElse(settings, "defaultNoteSize", "medium"), t)
    IN  IF Has(store, "migration_v2_done") /\ store["migration_v2_done"]
        THEN store
        ELSE StorageSet(StorageRemove(
                            StorageSet(store, MigrationUpdates(result.migrated)),
                            MigrationDeletes(result.migrated)),
                        [migration_v2_done |-> TRUE])

\* C40: a run of the worker's runMigration leaves the storage that
\* autoMigrate leaves from the same storage and settings.
C40_RunMigrationEqualsAutoMigrate ==
    [][event'.type = "runMigration" =>
          \E order \in Orders(DOMAIN NoteEntries(storage)) :
              storage' = AutoMigrated(storage, order, now)]_vars

=============================================================================
